---- MODULE Spec2Model ----
(***************************************************************************)
(* Aerographer: crawl orchestration (crawler/__init__.py,                  *)
(* crawler/generic.py, scan/__init__.py, scan/parallel.py).                *)
(*                                                                         *)
(* The exception classes are named ...ExceptionError in exceptions.py and  *)
(* crawler/generic.py and ...Error in scan/parallel.py; the two spellings  *)
(* name the same class here (ActiveCrawlerScanError is what scan raises    *)
(* and what async_scan catches).  INCLUDE collections are sets of paths.   *)
(* The module of the unit kms.key_id, which KeyPaginator requires          *)
(* (service/kms/__init__.py 45-62), is not part of the source tree; it is  *)
(* taken to be a resource module with the generic paginator.               *)
(***************************************************************************)
EXTENDS Integers, Sequences, FiniteSets, TLC

(***************************************************************************)
(* Registry of fetch units: one per service/<service>/<resource> module.   *)
(***************************************************************************)
Units == {"kms.key_id", "kms.key", "route53.hosted_zone", "route53.record_set"}

Services == {"kms", "route53"}

\* service/__init__.py: _, _, service, resource = sub_module.__name__.split('.')
serviceType(u) ==
    IF u \in {"kms.key_id", "kms.key"} THEN "kms" ELSE "route53"

\* SERVICE_DEFINITION = {'globalService': ...} of the service package
globalService(u) == serviceType(u) = "route53"

\* INCLUDE of the unit's custom paginator (KeyPaginator, RecordSetPaginator)
PaginatorInclude(u) ==
    CASE u = "kms.key" -> {"kms.key_id"}
      [] u = "route53.record_set" -> {"route53.hosted_zone"}
      [] OTHER -> {}

\* An INCLUDE entry names a resource module or a whole service package.
Refs == Units \cup Services

UnitStates == {"initialized", "active", "complete"}

(***************************************************************************)
(* Bounds of the model.                                                    *)
(***************************************************************************)
MaxEdges == 2          \* INCLUDE entries over all units in the closure runs
MaxIdValues == 2       \* length of id_values in the pagination runs
MaxSessions == 2       \* accounts * regions * requested units in the scheduler runs
MaxContexts == 4       \* length of CONTEXTS
GciDepthCap == 8       \* invocations of get_crawler_includes followed in one run
MaxCursor == 2         \* instances of a SurveySearch cursor
MaxValues == 2         \* candidate values of a where / where_not call
MaxIterators == 2      \* get_resources calls on one resource type
MaxCursorObjects == 3  \* SurveySearch objects built in one run
MaxEvaluateCalls == 4  \* evaluate calls on one instance
MaxWrapperCalls == 3   \* calls of the wrapped operation by one paginate generator

(***************************************************************************)
(* Program constants.                                                      *)
(***************************************************************************)
ScanAttempts == 60     \* async_scan: for _ in range(60)
SleepSeconds == 2      \* async_scan: await asyncio.sleep(2)
PaginateAttempts == 4  \* async_paginate: for attempt in range(4)

VARIABLES
    CONTEXTS,       \* scan.CONTEXTS: tuple of CONTEXT(account_id, region, service)
    INCLUDE,        \* crawler.INCLUDE of every unit (module INCLUDE + external)
    crawlers,       \* Crawler.crawlers: the requested units
    state,          \* GenericCrawler.state of every unit
    scan_results,   \* scan.scan_results[service][resource]: bucket of instances
    call,           \* async_scan coroutines, by caller and unit
    task,           \* _scan_context coroutines, by unit and context
    deploy,         \* the top-level deploy_crawlers coroutine
    fetched,        \* history: number of _scan_context starts per unit, context
    activated,      \* history: number of initialized -> active transitions
    gci,            \* get_crawler_includes: the recursion in progress
    pg,             \* async_paginate: the call in progress
    request,        \* Crawler.services and Crawler.skip
    ret,            \* Crawler.scan: RETURN_COLLECTION
    sv,             \* a Survey (survey/__init__.py) and a FrozenDict bucket
    q,              \* a SurveySearch query and its result
    cur,            \* SurveySearch cursors over one resource type, element by element
    ev,             \* one resource instance: its results and the evaluate calls
    lk,             \* a Survey filled by identifier and a lookup by identifier
    wb,             \* Whiteboard.board and the last Whiteboard call
    pw              \* a PaginateWrapper.paginate generator and its last page

vars == <<CONTEXTS, INCLUDE, crawlers, state, scan_results, call, task, deploy,
          fetched, activated, gci, pg, request, ret, sv, q, cur, ev, lk, wb, pw>>

\* what the scheduler, the closure and async_paginate never touch
aux == <<request, ret, sv, q, cur, ev, lk, wb, pw>>

(***************************************************************************)
(* get_crawlers / get_crawler: path resolution with a skip list.           *)
(***************************************************************************)
\* faulty variant of Skipped: the skip list is ignored
SkippedNever(path, skip) == FALSE

\* get_crawler: any(substring == path.rsplit('.', 1)[0] ...) or any(substring == path ...)
Skipped(path, skip) ==
    \/ path \in skip
    \/ path \in Units /\ serviceType(path) \in skip

\* get_crawler on a resource module: the module's crawler class unless skipped
get_crawler_module(path, skip) ==
    IF Skipped(path, skip) THEN {} ELSE {path}

\* get_crawler: a package path walks its resource modules
get_crawler(path, skip) ==
    IF Skipped(path, skip) THEN {}
    ELSE IF path \in Units THEN {path}
    ELSE UNION {get_crawler_module(m, skip) : m \in {u \in Units : serviceType(u) = path}}

get_crawlers(services, skip) ==
    UNION {get_crawler(s, skip) : s \in services}

(***************************************************************************)
(* get_crawler_includes (crawler/__init__.py 587-611).                     *)
(***************************************************************************)
\* One invocation, up to the recursive call: provided, includes and the
\* include_crawlers comprehension.
IncludeCrawlers(cs, st, inc) ==
    LET provided == cs
        includes == UNION {inc[c] : c \in cs}
    IN  {c \in get_crawlers(includes, provided) : cs # {} /\ st[c] = "initialized"}

\* faulty variant of get_crawler_includes: no recursive call
get_crawler_includesOnce(cs, st, inc) == IncludeCrawlers(cs, st, inc)

RECURSIVE get_crawler_includes(_, _, _)
get_crawler_includes(cs, st, inc) ==
    LET include_crawlers == IncludeCrawlers(cs, st, inc)
    IN  IF include_crawlers # {}
        THEN include_crawlers \cup get_crawler_includes(include_crawlers \cup cs, st, inc)
        ELSE include_crawlers

\* The recursion as a machine: gci.acc is the crawlers argument of the
\* invocation about to run, gci.result what the outer invocations collected.
GciIdle == [pc |-> "idle", arg |-> {}, acc |-> {}, result |-> {}, depth |-> 0,
            round |-> 0, prev |-> {}]

Edges(inc) == {e \in Units \X Refs : e[2] \in inc[e[1]]}

\* Crawler._apply_external_evaluations: INCLUDE + external includes
ApplyExternalIncludes(u, r) ==
    /\ gci.pc = "idle"
    /\ r \notin INCLUDE[u]
    /\ Cardinality(Edges(INCLUDE)) < MaxEdges
    /\ INCLUDE' = [INCLUDE EXCEPT ![u] = @ \cup {r}]
    /\ UNCHANGED <<CONTEXTS, crawlers, state, scan_results, call, task, deploy,
                   fetched, activated, gci, pg, aux>>

\* deploy_crawlers(crawlers) entering get_crawler_includes(crawlers=crawlers)
GciStart(R) ==
    /\ gci.pc = "idle"
    /\ gci' = [GciIdle EXCEPT !.pc = "call", !.arg = R, !.acc = R, !.depth = 1,
                              !.round = 1]
    /\ UNCHANGED <<CONTEXTS, INCLUDE, crawlers, state, scan_results, call, task,
                   deploy, fetched, activated, pg, aux>>

\* one invocation of get_crawler_includes
GciCall ==
    /\ gci.pc = "call"
    /\ gci.depth < GciDepthCap
    /\ LET include_crawlers == IncludeCrawlers(gci.acc, state, INCLUDE)
       IN  IF include_crawlers # {}
           THEN gci' = [gci EXCEPT !.acc = include_crawlers \cup @,
                                   !.result = @ \cup include_crawlers,
                                   !.depth = @ + 1]
           ELSE gci' = [gci EXCEPT !.pc = "done"]
    /\ UNCHANGED <<CONTEXTS, INCLUDE, crawlers, state, scan_results, call, task,
                   deploy, fetched, activated, pg, aux>>

\* deploy_crawlers called again on the list it deployed (crawlers + include_crawlers)
GciAgain ==
    /\ gci.pc = "done"
    /\ gci.round = 1
    /\ LET deployed == gci.arg \cup gci.result
       IN  gci' = [GciIdle EXCEPT !.pc = "call", !.arg = deployed, !.acc = deployed,
                                  !.depth = 1, !.round = 2, !.prev = deployed]
    /\ UNCHANGED <<CONTEXTS, INCLUDE, crawlers, state, scan_results, call, task,
                   deploy, fetched, activated, pg, aux>>

(***************************************************************************)
(* scan.init: CONTEXTS (scan/__init__.py 69-182).                          *)
(***************************************************************************)
Accounts == <<"111111111111", "222222222222">>
Regions == <<"us-east-1", "us-west-2">>

Prefixes(seq) == {SubSeq(seq, 1, n) : n \in 1..Len(seq)}

\* the iteration orders of a set (for service in services)
Orders(S) == {o \in [1..Cardinality(S) -> S] : \A i, j \in DOMAIN o : i # j => o[i] # o[j]}

\* _init_sessions: one session per account and region, in that order;
\* _init_contexts / _init_service_contexts: one CONTEXT per session and service
InitContexts(accounts, regions, services) ==
    LET nr == Len(regions)
        ns == Len(services)
    IN  [i \in 1..(Len(accounts) * nr * ns) |->
            [account_id |-> accounts[((i - 1) \div (nr * ns)) + 1],
             region     |-> regions[(((i - 1) \div ns) % nr) + 1],
             service    |-> services[((i - 1) % ns) + 1]]]

CtxIds == 1..MaxContexts

\* GenericCrawler.scan 475-482: the contexts handed to _scan_context
ScanContexts(u, ctxs) ==
    LET contexts == IF globalService(u) THEN {1} ELSE DOMAIN ctxs
    IN  {c \in contexts : ctxs[c].service = serviceType(u)}

(***************************************************************************)
(* Coroutines of a scan.                                                   *)
(***************************************************************************)
Top == <<"top", 0>>                 \* Crawler.scan -> deploy_crawlers
Callers == {Top} \cup (Units \X CtxIds)  \* ... or a custom paginator's paginate

NoCall == [pc |-> "none", tries |-> 0, waited |-> 0, err |-> "none", cause |-> "none"]
NewCall == [NoCall EXCEPT !.pc = "ready"]
Returned == [NoCall EXCEPT !.pc = "returned"]

\* cause: the error that the latest remote call or nested scan raised;
\* wrote: history, the ids of the instances the coroutine put into its bucket
NoTask == [pc |-> "none", attempt |-> 0, err |-> "none", cause |-> "none",
           wrote |-> {}]
NewTask == [NoTask EXCEPT !.pc = "start"]
Done == [NoTask EXCEPT !.pc = "done"]
Raised(err, cause) == [NoTask EXCEPT !.pc = "raised", !.err = err, !.cause = cause]

NoBucket == [present |-> FALSE, items |-> {}]

Ids == {"x"}

\* faulty variant of Put: an id that is in the bucket keeps its instance
PutKeepsFirst(items, ids, c) ==
    items \cup {<<id, c>> : id \in {i \in ids : \A j \in items : j[1] # i}}

\* scan_results[...].update({resource_instance.id: resource_instance})
Put(items, ids, c) == {i \in items : i[1] \notin ids} \cup {<<id, c>> : id \in ids}

CallOf(k, u) == IF <<k, u>> \in DOMAIN call THEN call[<<k, u>>] ELSE NoCall
TaskOf(u, c) == IF <<u, c>> \in DOMAIN task THEN task[<<u, c>>] ELSE NoTask

\* the event loop runs until deploy_crawlers returns or raises (asyncio.run)
Running == deploy.pc = "gather"

\* faulty variant of GatherDone: the gather does not wait for its awaitables
GatherPending(k) == \A d \in Units : CallOf(k, d).pc # "raised"

\* faulty variant of GatherDone: done with the first async_scan that returned
GatherFirst(k) ==
    /\ \E d \in Units : CallOf(k, d).pc = "returned"
    /\ \A d \in Units : CallOf(k, d).pc # "raised"

\* deploy_crawlers: await asyncio.gather(*(async_scan(s) ...)) returns once
\* every async_scan of caller k has returned
GatherDone(k) ==
    \A d \in Units : CallOf(k, d).pc \in {"none", "returned"}

(***************************************************************************)
(* GenericCrawler.scan (crawler/generic.py 445-487).                       *)
(***************************************************************************)
\* faulty variant of ScanEntry: no test for active
ScanEntryUnguarded(st) ==
    CASE st = "complete" -> "return"
      [] OTHER -> "run"

\* faulty variant of ScanEntry: active is treated like complete
ScanEntryActiveReturns(st) ==
    CASE st \in {"active", "complete"} -> "return"
      [] OTHER -> "run"

\* 456-462: make sure scan is not active or complete
ScanEntry(st) ==
    CASE st = "active" -> "ActiveCrawlerScanError"
      [] st = "complete" -> "return"
      [] OTHER -> "run"

\* faulty variant of StateAfterFailure: a failed scan is marked complete
StateCompleteAfterFailure(st) == "complete"

\* faulty variant of StateAfterFailure: a failed scan resets the state
StateResetAfterFailure(st) == "initialized"

\* 477-483: an exception leaving gather skips 'cls.state = complete'
StateAfterFailure(st) == st

(***************************************************************************)
(* async_scan (scan/parallel.py 58-81).                                    *)
(***************************************************************************)
\* faulty variant of LoopExhausted: one attempt more
LoopExhaustedLate(tries) == tries > ScanAttempts

\* for _ in range(60): the loop is exhausted after the 60th attempt
LoopExhausted(tries) == tries >= ScanAttempts

\* except PaginatorNotFoundError as err: raise FailedCrawlerScanError(err)
AsyncScanError(err) ==
    IF err = "PaginatorNotFoundError" THEN "FailedCrawlerScanError" ELSE err

(***************************************************************************)
(* async_paginate as seen by one _scan_context (scan/parallel.py 115-180,  *)
(* crawler/generic.py 421-443).                                            *)
(***************************************************************************)
RemoteErrors == {"Throttling", "ClientError", "ParamValidationError"}

\* faulty variant of AfterAttempt: every ClientError is retried
AfterAttemptRetryAny(attempt, raised) ==
    IF raised = "none" THEN [next |-> "return", err |-> "none"]
    ELSE IF raised \in {"Throttling", "ClientError"} /\ attempt + 1 < PaginateAttempts
         THEN [next |-> "retry", err |-> "none"]
         ELSE [next |-> "raise", err |-> IF raised = "Throttling"
                                         THEN "FailedCrawlerScanError" ELSE raised]

\* faulty variant of AfterAttempt: a fifth attempt
AfterAttemptOneMore(attempt, raised) ==
    IF raised = "none" THEN [next |-> "return", err |-> "none"]
    ELSE IF raised = "Throttling"
         THEN IF attempt < PaginateAttempts
              THEN [next |-> "retry", err |-> "none"]
              ELSE [next |-> "raise", err |-> "FailedCrawlerScanError"]
         ELSE [next |-> "raise", err |-> raised]

\* 160-180: what follows the attempt with index 'attempt' (0-based) when
\* gather returned ("none") or raised
AfterAttempt(attempt, raised) ==
    IF raised = "none" THEN [next |-> "return", err |-> "none"]
    ELSE IF raised = "Throttling"
         THEN IF attempt + 1 < PaginateAttempts
              THEN [next |-> "retry", err |-> "none"]
              ELSE [next |-> "raise", err |-> "FailedCrawlerScanError"]
         ELSE [next |-> "raise", err |-> raised]

\* _scan_context 436-443: the except clauses
ScanContextError(err) ==
    IF err \in {"ParamValidationError", "ClientError", "MetadataClassNotFoundError"}
    THEN "FailedCrawlerScanError"
    ELSE err

\* what one attempt of a fetch can bring: an error of the remote call, or
\* pages with resources 'ids', of which 'built' get their instance before
\* a metadata class is found missing (built = ids: none is missing)
FetchOutcomes ==
    {[raised |-> r, ids |-> {}, built |-> {}] : r \in RemoteErrors}
    \cup {[raised |-> "none", ids |-> i, built |-> b] : <<i, b>> \in
            {p \in (SUBSET Ids) \X (SUBSET Ids) : p[2] \subseteq p[1]}}

(***************************************************************************)
(* deploy_crawlers (crawler/__init__.py 614-638).                          *)
(***************************************************************************)
\* crawlers + include_crawlers
Deployed(cs, st, inc) == cs \cup get_crawler_includes(cs, st, inc)

\* gather(*(async_scan(s) for s in crawlers + include_crawlers)) by caller k
SpawnCalls(k, cs) == [x \in {<<k, u>> : u \in cs} |-> NewCall] @@ call

\* Crawler.scan: asyncio.run(deploy_crawlers(crawlers=self.crawlers))
DeployStart ==
    /\ deploy.pc = "init"
    /\ call' = SpawnCalls(Top, Deployed(crawlers, state, INCLUDE))
    /\ deploy' = [deploy EXCEPT !.pc = "gather"]
    /\ UNCHANGED <<CONTEXTS, INCLUDE, crawlers, state, scan_results, task,
                   fetched, activated, gci, pg, aux>>

\* every async_scan of the top-level gather has returned
DeployReturn ==
    /\ Running
    /\ GatherDone(Top)
    /\ deploy' = [deploy EXCEPT !.pc = "returned"]
    /\ UNCHANGED <<CONTEXTS, INCLUDE, crawlers, state, scan_results, call, task,
                   fetched, activated, gci, pg, aux>>

\* the first exception of the top-level gather leaves deploy_crawlers
DeployRaise(u) ==
    /\ Running
    /\ CallOf(Top, u).pc = "raised"
    /\ deploy' = [deploy EXCEPT !.pc = "raised",
                                !.err = IF CallOf(Top, u).err = "ClientError"
                                        THEN "FailedCrawlerScanError"
                                        ELSE CallOf(Top, u).err,
                                !.cause = CallOf(Top, u).cause]
    /\ UNCHANGED <<CONTEXTS, INCLUDE, crawlers, state, scan_results, call, task,
                   fetched, activated, gci, pg, aux>>

(***************************************************************************)
(* Crawler.scan after deploy_crawlers (crawler/__init__.py 791-807).       *)
(***************************************************************************)
NoRequest == [services |-> {}, skip |-> {}]

\* results: the results list of every instance of the returned buckets
NoReturn == [present |-> FALSE, collection |-> <<>>, raised |-> "none",
             results |-> <<>>]

\* faulty variant of RETURN_COLLECTION: every bucket of the store is returned
RETURN_COLLECTIONAll(cs, results) ==
    [u \in {v \in Units : results[v].present} |-> results[u].items]

\* for crawler in self.crawlers: RETURN_COLLECTION[serviceType][resourceName] =
\* SURVEY[serviceType][resourceName]
RETURN_COLLECTION(cs, results) ==
    [u \in cs |-> results[u].items]

(***************************************************************************)
(* async_scan / GenericCrawler.scan steps.                                 *)
(***************************************************************************)
\* One turn of the loop of async_scan(u) awaited by caller k: the first run
\* of the coroutine, or the wake-up from asyncio.sleep(2).  The call of
\* scan runs without suspension up to its gather.
AsyncScanStep(k, u) ==
    LET r == CallOf(k, u)
        contexts == ScanContexts(u, CONTEXTS)
    IN  /\ Running
        /\ r.pc \in {"ready", "sleeping"}
        /\ IF LoopExhausted(r.tries)
           THEN \* raise TimeOutCrawlerScanError
                /\ call' = [call EXCEPT ![<<k, u>>] =
                              [r EXCEPT !.pc = "raised",
                                        !.err = "TimeOutCrawlerScanError",
                                        !.cause = "TimeOutCrawlerScanError"]]
                /\ UNCHANGED <<state, scan_results, task, activated, aux>>
           ELSE CASE ScanEntry(state[u]) = "ActiveCrawlerScanError" ->
                       /\ call' = [call EXCEPT ![<<k, u>>] =
                                     [r EXCEPT !.pc = "sleeping",
                                               !.tries = @ + 1,
                                               !.waited = @ + SleepSeconds]]
                       /\ UNCHANGED <<state, scan_results, task, activated, aux>>
                  [] ScanEntry(state[u]) = "return" ->
                       /\ call' = [call EXCEPT ![<<k, u>>] = Returned]
                       /\ UNCHANGED <<state, scan_results, task, activated, aux>>
                  [] OTHER ->
                       /\ activated' = [activated EXCEPT ![u] = @ + 1]
                       /\ scan_results' = [scan_results EXCEPT ![u].present = TRUE]
                       /\ task' = [x \in {<<u, c>> : c \in contexts} |-> NewTask] @@ task
                       /\ IF contexts = {}
                          THEN \* gather() of nothing is done at once
                               /\ state' = [state EXCEPT ![u] = "complete"]
                               /\ call' = [call EXCEPT ![<<k, u>>] = Returned]
                          ELSE /\ state' = [state EXCEPT ![u] = "active"]
                               /\ call' = [call EXCEPT ![<<k, u>>] =
                                             [NoCall EXCEPT !.pc = "scanning"]]
        /\ UNCHANGED <<CONTEXTS, INCLUDE, crawlers, deploy, fetched, gci, pg, aux>>

\* scan: every _scan_context of the gather is done: mark scan as complete
ScanComplete(k, u) ==
    /\ Running
    /\ CallOf(k, u).pc = "scanning"
    /\ \A c \in ScanContexts(u, CONTEXTS) : TaskOf(u, c).pc = "done"
    /\ state' = [state EXCEPT ![u] = "complete"]
    /\ call' = [call EXCEPT ![<<k, u>>] = Returned]
    /\ UNCHANGED <<CONTEXTS, INCLUDE, crawlers, scan_results, task, deploy,
                   fetched, activated, gci, pg, aux>>

\* scan: a _scan_context raised; the exception leaves scan and async_scan
ScanRaise(k, u, c) ==
    /\ Running
    /\ CallOf(k, u).pc = "scanning"
    /\ c \in ScanContexts(u, CONTEXTS)
    /\ TaskOf(u, c).pc = "raised"
    /\ state' = [state EXCEPT ![u] = StateAfterFailure(@)]
    /\ call' = [call EXCEPT ![<<k, u>>] =
                  [@ EXCEPT !.pc = "raised",
                            !.err = AsyncScanError(TaskOf(u, c).err),
                            !.cause = TaskOf(u, c).cause]]
    /\ UNCHANGED <<CONTEXTS, INCLUDE, crawlers, scan_results, task, deploy,
                   fetched, activated, gci, pg, aux>>

(***************************************************************************)
(* GenericCrawler._scan_context (crawler/generic.py 393-443) and the       *)
(* custom paginators' paginate (service/kms/__init__.py 48-76,             *)
(* service/route53/__init__.py 46-90).                                     *)
(***************************************************************************)
\* the identifiers a custom paginator fans out over:
\* [i.id for i in SURVEY[...][...].values() if i.context == self.context]
IdValues(u, c, results) ==
    UNION {{i[1] : i \in {j \in results[d].items : j[2] = c}} : d \in PaginatorInclude(u)}

\* the coroutine's first run: _get_paginator, then paginate up to its first
\* suspension (the nested deploy_crawlers, or the first remote call)
ScanContextStart(u, c, found) ==
    LET t == TaskOf(u, c)
        requires == get_crawlers(PaginatorInclude(u), {})
    IN  /\ Running
        /\ t.pc = "start"
        /\ fetched' = [fetched EXCEPT ![<<u, c>>] = @ + 1]
        /\ IF ~found
           THEN /\ task' = [task EXCEPT ![<<u, c>>] =
                              Raised("PaginatorNotFoundError", "PaginatorNotFoundError")]
                /\ call' = call
           ELSE IF PaginatorInclude(u) # {}
                THEN /\ task' = [task EXCEPT ![<<u, c>>].pc = "deps"]
                     /\ call' = SpawnCalls(<<u, c>>, Deployed(requires, state, INCLUDE))
                ELSE /\ task' = [task EXCEPT ![<<u, c>>].pc = "paginate"]
                     /\ call' = call
        /\ UNCHANGED <<CONTEXTS, INCLUDE, crawlers, state, scan_results, deploy,
                       activated, gci, pg, aux>>

\* paginate: the nested deploy_crawlers returned; read the results of the
\* required units and fan out over their identifiers
PaginateRead(u, c) ==
    LET t == TaskOf(u, c)
    IN  /\ Running
        /\ t.pc = "deps"
        /\ GatherDone(<<u, c>>)
        /\ IF IdValues(u, c, scan_results) = {}
           THEN \* async_paginate 110-111: id_key without id_values
                task' = [task EXCEPT ![<<u, c>>] =
                           Raised(ScanContextError("ValueError"), "ValueError")]
           ELSE task' = [task EXCEPT ![<<u, c>>].pc = "paginate"]
        /\ UNCHANGED <<CONTEXTS, INCLUDE, crawlers, state, scan_results, call,
                       deploy, fetched, activated, gci, pg, aux>>

\* paginate: the nested deploy_crawlers raised
PaginateDepsRaise(u, c, d) ==
    LET t == TaskOf(u, c)
        r == CallOf(<<u, c>>, d)
    IN  /\ Running
        /\ t.pc = "deps"
        /\ r.pc = "raised"
        /\ task' = [task EXCEPT ![<<u, c>>] = Raised(ScanContextError(r.err), r.cause)]
        /\ UNCHANGED <<CONTEXTS, INCLUDE, crawlers, state, scan_results, call,
                       deploy, fetched, activated, gci, pg, aux>>

\* one attempt of async_paginate resolves; on success the instances are
\* built and put into scan_results
ScanContextAttempt(u, c, out) ==
    LET t == TaskOf(u, c)
        a == AfterAttempt(t.attempt, out.raised)
    IN  /\ Running
        /\ t.pc = "paginate"
        /\ CASE a.next = "retry" ->
                  /\ task' = [task EXCEPT ![<<u, c>>] =
                                [t EXCEPT !.attempt = @ + 1, !.cause = out.raised]]
                  /\ scan_results' = scan_results
             [] a.next = "raise" ->
                  /\ task' = [task EXCEPT ![<<u, c>>] =
                                Raised(ScanContextError(a.err), out.raised)]
                  /\ scan_results' = scan_results
             [] OTHER ->
                  /\ scan_results' = [scan_results EXCEPT ![u].items = Put(@, out.built, c)]
                  /\ IF out.built = out.ids
                     THEN task' = [task EXCEPT ![<<u, c>>] =
                                     [Done EXCEPT !.wrote = out.built]]
                     ELSE task' = [task EXCEPT ![<<u, c>>] =
                                     [Raised(ScanContextError("MetadataClassNotFoundError"),
                                             "MetadataClassNotFoundError")
                                        EXCEPT !.wrote = out.built]]
        /\ UNCHANGED <<CONTEXTS, INCLUDE, crawlers, state, call, deploy, fetched,
                       activated, gci, pg, aux>>

(***************************************************************************)
(* async_paginate with its identifiers (scan/parallel.py 84-180).          *)
(***************************************************************************)
IdPool == {"a", "b"}

\* an identifier that is itself a list: a batch of identifiers, as
\* service/elbv2 TagPaginator passes them (73-77)
IdChunks == {"['a', 'b']"}

\* a str can be the key of a dict, a list cannot
Hashable(v) == v \notin IdChunks
PaginatorContexts == {"111111111111.us-east-1.kms", "111111111111.us-west-2.kms"}
PaginatorFunctions == {"list_keys", "describe_key"}

PgIdle == [pc |-> "idle", context |-> "none", function |-> "none",
           id_key |-> FALSE, id_values |-> <<>>, attempt |-> 0,
           items |-> <<>>, first |-> "none", issued |-> [v \in {} |-> 0],
           err |-> "none", message |-> <<>>, pages |-> <<>>, discarded |-> {}]

\* faulty variant of MissingIdArgument: an empty id_values is accepted
MissingIdArgumentLax(id_key, id_values) == id_values # <<>> /\ ~id_key

\* 110-111: id_key and id_values are both required
MissingIdArgument(id_key, id_values) ==
    \/ id_key /\ id_values = <<>>
    \/ id_values # <<>> /\ ~id_key

\* 130-139: the paginators dict of one attempt: one entry per distinct
\* identifier, or the single entry 'resource'
PaginatorKeys(id_key, id_values) ==
    IF id_key THEN {id_values[i] : i \in DOMAIN id_values} ELSE {"resource"}

\* dict order of the paginators: the distinct identifiers in the order of
\* their first occurrence in id_values
RECURSIVE Distinct(_)
Distinct(seq) ==
    IF seq = <<>> THEN <<>>
    ELSE LET front == Distinct(SubSeq(seq, 1, Len(seq) - 1))
             last == seq[Len(seq)]
         IN  IF \E i \in DOMAIN front : front[i] = last THEN front
             ELSE Append(front, last)

PaginatorOrder(id_key, id_values) ==
    IF id_key THEN Distinct(id_values) ELSE <<"resource">>

\* the pages that _resolve_pages returned for the items of one attempt
Resolved(items, attempt) ==
    {[key |-> k, attempt |-> attempt] : k \in {j \in DOMAIN items : items[j] = "pages"}}

\* faulty variant of ReturnedPages: pages of earlier attempts are kept
ReturnedPagesKept(order, attempt, discarded) ==
    [i \in 1..Len(order) |->
        IF \E d \in discarded : d.key = order[i]
        THEN CHOOSE d \in discarded : d.key = order[i]
        ELSE [key |-> order[i], attempt |-> attempt]]

\* 162, 176: pages = await asyncio.gather(*pages_iterables); return pages
ReturnedPages(order, attempt, discarded) ==
    [i \in 1..Len(order) |-> [key |-> order[i], attempt |-> attempt]]

\* the paginators of an attempt are issued again, every one of them
Issue(issued, keys) ==
    [k \in keys |-> IF k \in DOMAIN issued THEN issued[k] + 1 ELSE 1]

\* 176-178: f'{paginator.context}.{paginator.function}: Max retries exceeded.'
MaxRetriesMessage(context, function) ==
    <<context, ".", function, ": Max retries exceeded.">>

\* async_paginate(paginator, id_key, id_values) is called
PaginateCall(context, function, id_key, id_values) ==
    /\ pg.pc = "idle"
    /\ IF MissingIdArgument(id_key, id_values)
       THEN pg' = [PgIdle EXCEPT !.pc = "raised", !.context = context,
                                 !.function = function, !.id_key = id_key,
                                 !.id_values = id_values, !.err = "ValueError"]
       ELSE IF id_key /\ \E i \in DOMAIN id_values : ~Hashable(id_values[i])
       THEN \* 130-136: the dict comprehension over id_values raises
            pg' = [PgIdle EXCEPT !.pc = "raised", !.context = context,
                                 !.function = function, !.id_key = id_key,
                                 !.id_values = id_values, !.err = "TypeError"]
       ELSE LET keys == PaginatorKeys(id_key, id_values)
            IN  pg' = [PgIdle EXCEPT !.pc = "resolving", !.context = context,
                                     !.function = function, !.id_key = id_key,
                                     !.id_values = id_values,
                                     !.items = [k \in keys |-> "running"],
                                     !.issued = Issue(PgIdle.issued, keys)]
    /\ UNCHANGED <<CONTEXTS, INCLUDE, crawlers, state, scan_results, call, task,
                   deploy, fetched, activated, gci, aux>>

\* _resolve_pages of one paginator ends in its thread: all pages, or an
\* error of the remote call; gather keeps the first exception raised
ResolvePages(k, outcome) ==
    /\ pg.pc = "resolving"
    /\ k \in DOMAIN pg.items
    /\ pg.items[k] = "running"
    /\ pg' = [pg EXCEPT !.items[k] = outcome,
                        !.first = IF @ = "none" /\ outcome # "pages" THEN outcome ELSE @]
    /\ UNCHANGED <<CONTEXTS, INCLUDE, crawlers, state, scan_results, call, task,
                   deploy, fetched, activated, gci, aux>>

\* 160-180: 'pages = await asyncio.gather(*pages_iterables)' returns or
\* raises, and the attempt is followed by a return, a retry or a raise
PaginateAttemptEnds ==
    LET a == AfterAttempt(pg.attempt, pg.first)
        keys == PaginatorKeys(pg.id_key, pg.id_values)
    IN  /\ pg.pc = "resolving"
        /\ \/ pg.first # "none"
           \/ \A k \in DOMAIN pg.items : pg.items[k] = "pages"
        /\ CASE a.next = "retry" ->
                  pg' = [pg EXCEPT !.attempt = @ + 1,
                                   !.items = [k \in keys |-> "running"],
                                   !.first = "none",
                                   !.issued = Issue(@, keys),
                                   !.discarded = @ \cup Resolved(pg.items, pg.attempt)]
             [] a.next = "raise" ->
                  pg' = [pg EXCEPT !.pc = "raised", !.err = a.err,
                                   !.message = IF a.err = "FailedCrawlerScanError"
                                               THEN MaxRetriesMessage(pg.context, pg.function)
                                               ELSE <<>>]
             [] OTHER ->
                  pg' = [pg EXCEPT !.pc = "returned",
                                   !.pages = ReturnedPages(
                                       PaginatorOrder(pg.id_key, pg.id_values),
                                       pg.attempt, pg.discarded)]
        /\ UNCHANGED <<CONTEXTS, INCLUDE, crawlers, state, scan_results, call, task,
                       deploy, fetched, activated, gci, aux>>

(***************************************************************************)
(* Survey: the Freezable containers (survey/__init__.py 242-277, 398-752)  *)
(* and the buckets of make_survey (scan/survey.py 22-54).  The classes     *)
(* FrozenInstanceError and SurveyAttributeError are imported from          *)
(* exceptions.py, whose copy in the source tree does not define them; they *)
(* are taken to be plain exception classes.                                *)
(***************************************************************************)
SvServices == {"kms", "route53"}
SvTypes == {"key"}
SvIds == {"a", "b"}

\* the containers: the Survey <<>>, a SurveyService <<s>>, a SurveyResourceType <<s, t>>
SvNodes ==
    {<<>>} \cup {<<s>> : s \in SvServices}
    \cup {<<s, t>> : s \in SvServices, t \in SvTypes}

\* the names a container can hold: services, resource types, resource ids
SvChildren(n) ==
    CASE Len(n) = 0 -> SvServices
      [] Len(n) = 1 -> SvTypes
      [] OTHER -> SvIds

\* a container after __init__: an empty id set, no attribute, _frozen = False
SvNew == [ids |-> {}, attrs |-> {}, frozen |-> FALSE]

NoLast == [op |-> "none", frozen |-> FALSE, raised |-> "none"]

SvIdle ==
    [obj |-> [n \in SvNodes |-> SvNew],
     snap |-> [n \in SvNodes |-> SvNew],
     bucket |-> [made |-> FALSE, entries |-> {}, data |-> {}],
     last |-> NoLast]

\* the container n hangs under the Survey by attributes
SvExists(obj, n) ==
    \/ Len(n) = 0
    \/ Len(n) = 1 /\ n[1] \in obj[<<>>].attrs
    \/ Len(n) = 2 /\ n[1] \in obj[<<>>].attrs /\ n[2] \in obj[<<n[1]>>].attrs

\* Freezable.__setattr__
Freezable_setattr(o, key) ==
    IF o.frozen
    THEN [o |-> o, raised |-> "FrozenInstanceError"]
    ELSE [o |-> [o EXCEPT !.attrs = @ \cup {key}], raised |-> "none"]

\* Freezable.__delattr__
Freezable_delattr(o, key) ==
    IF o.frozen
    THEN [o |-> o, raised |-> "FrozenInstanceError"]
    ELSE IF key \in o.attrs
         THEN [o |-> [o EXCEPT !.attrs = @ \ {key}], raised |-> "none"]
         ELSE [o |-> o, raised |-> "AttributeError"]

\* get_service / get_resource_type / get_resource: getattr of the name
SvGet(obj, n, c) ==
    IF c \in obj[n].attrs THEN "found" ELSE "SurveyAttributeError"

\* get_services / get_resource_types / get_resources: get of every listed id
SvGetAll(obj, n) ==
    IF obj[n].ids \subseteq obj[n].attrs
    THEN [raised |-> "none", ids |-> obj[n].ids]
    ELSE [raised |-> "SurveyAttributeError", ids |-> {}]

notSv ==
    <<CONTEXTS, INCLUDE, crawlers, state, scan_results, call, task, deploy,
      fetched, activated, gci, pg, request, ret, q, cur, ev, lk, wb, pw>>

\* _add_service / _add_resource_type / _add_resource: the id joins the id
\* set, then the attribute is set to the new object
SvAdd(n, c) ==
    /\ SvExists(sv.obj, n)
    /\ c \in SvChildren(n)
    /\ LET listed == [sv.obj[n] EXCEPT !.ids = @ \cup {c}]
           r == Freezable_setattr(listed, c)
           under(m) == /\ Len(m) > Len(n)
                       /\ SubSeq(m, 1, Len(n) + 1) = Append(n, c)
       IN  sv' = [sv EXCEPT
                    !.obj = [m \in SvNodes |->
                               IF m = n THEN r.o
                               ELSE IF r.raised = "none" /\ under(m) THEN SvNew
                               ELSE sv.obj[m]],
                    !.last = [op |-> "_add", frozen |-> sv.obj[n].frozen,
                              raised |-> r.raised]]
    /\ UNCHANGED notSv

Survey_add_service(service) == SvAdd(<<>>, service)

SurveyService_add_resource_type(service, resource_type) ==
    SvAdd(<<service>>, resource_type)

SurveyResourceType_add_resource(service, resource_type, id) ==
    SvAdd(<<service, resource_type>>, id)

\* Survey._publish: every resource type, every service, then the Survey
SurveyPublish ==
    /\ ~sv.obj[<<>>].frozen
    /\ \A n \in SvNodes : SvExists(sv.obj, n) => SvGetAll(sv.obj, n).raised = "none"
    /\ LET frozen == [n \in SvNodes |->
                        IF SvExists(sv.obj, n)
                        THEN [sv.obj[n] EXCEPT !.frozen = TRUE]
                        ELSE sv.obj[n]]
       IN  sv' = [sv EXCEPT !.obj = frozen, !.snap = frozen,
                            !.last = [op |-> "_publish", frozen |-> FALSE,
                                      raised |-> "none"]]
    /\ UNCHANGED notSv

\* an evaluation assigns an attribute of a container of the published Survey
SurveySetAttr(n, c) ==
    /\ sv.obj[<<>>].frozen
    /\ SvExists(sv.obj, n)
    /\ c \in SvChildren(n)
    /\ LET r == Freezable_setattr(sv.obj[n], c)
       IN  sv' = [sv EXCEPT !.obj[n] = r.o,
                            !.last = [op |-> "setattr", frozen |-> sv.obj[n].frozen,
                                      raised |-> r.raised]]
    /\ UNCHANGED notSv

\* an evaluation deletes an attribute of a container of the published Survey
SurveyDelAttr(n, c) ==
    /\ sv.obj[<<>>].frozen
    /\ SvExists(sv.obj, n)
    /\ c \in SvChildren(n)
    /\ LET r == Freezable_delattr(sv.obj[n], c)
       IN  sv' = [sv EXCEPT !.obj[n] = r.o,
                            !.last = [op |-> "delattr", frozen |-> sv.obj[n].frozen,
                                      raised |-> r.raised]]
    /\ UNCHANGED notSv

\* make_survey: one FrozenDict per resource type of the scan data
MakeSurvey(resources) ==
    /\ ~sv.bucket.made
    /\ sv' = [sv EXCEPT !.bucket = [made |-> TRUE, entries |-> resources,
                                    data |-> resources],
                        !.last = [op |-> "make_survey", frozen |-> FALSE,
                                  raised |-> "none"]]
    /\ UNCHANGED notSv

\* FrozenDict.__getitem__
FrozenDict_getitem(entries, key) ==
    IF key \in entries THEN "found" ELSE "KeyError"

\* FrozenDict.__setitem__ (bucket[key] = value)
FrozenDict_setitem(key) ==
    /\ sv.bucket.made
    /\ sv' = [sv EXCEPT !.last = [op |-> "setitem", frozen |-> TRUE,
                                  raised |-> "FrozenInstanceError"]]
    /\ UNCHANGED notSv

\* FrozenDict.__delitem__ (del bucket[key])
FrozenDict_delitem(key) ==
    /\ sv.bucket.made
    /\ sv' = [sv EXCEPT !.last = [op |-> "delitem", frozen |-> TRUE,
                                  raised |-> "FrozenInstanceError"]]
    /\ UNCHANGED notSv

\* bucket.update({key: value}): FrozenDict inherits dict.update, which
\* stores without calling __setitem__
FrozenDict_update(key) ==
    /\ sv.bucket.made
    /\ sv' = [sv EXCEPT !.bucket.entries = @ \cup {key},
                        !.last = [op |-> "update", frozen |-> TRUE,
                                  raised |-> "none"]]
    /\ UNCHANGED notSv

\* bucket.pop(key): FrozenDict inherits dict.pop, which removes without
\* calling __delitem__
FrozenDict_pop(key) ==
    /\ sv.bucket.made
    /\ sv' = [sv EXCEPT !.bucket.entries = @ \ {key},
                        !.last = [op |-> "pop", frozen |-> TRUE,
                                  raised |-> IF key \in sv.bucket.entries
                                             THEN "none" ELSE "KeyError"]]
    /\ UNCHANGED notSv

(***************************************************************************)
(* SurveySearch: path resolution, the eight checks, where and where_not    *)
(* (survey/__init__.py 61-239, 280-395).  A Python value is tagged with    *)
(* its type: a string is its sequence of characters (s), a number is n, a  *)
(* list or tuple its elements (l), a dataclass instance its fields (f).    *)
(***************************************************************************)
NoFields == [none |-> 0]

PyStr(s) == [t |-> "str", s |-> s, n |-> 0, l |-> <<>>, f |-> NoFields]
PyInt(n) == [t |-> "int", s |-> <<>>, n |-> n, l |-> <<>>, f |-> NoFields]
PyList(l) == [t |-> "list", s |-> <<>>, n |-> 0, l |-> l, f |-> NoFields]
PyObj(f) == [t |-> "obj", s |-> <<>>, n |-> 0, l |-> <<>>, f |-> f]

PyBool(b) == IF b THEN "True" ELSE "False"

\* code points of the characters used
Ord(c) == IF c = "a" THEN 97 ELSE 98

\* str < str: lexicographic
RECURSIVE StrLess(_, _)
StrLess(s, t) ==
    IF t = <<>> THEN FALSE
    ELSE IF s = <<>> THEN TRUE
    ELSE IF Ord(Head(s)) # Ord(Head(t)) THEN Ord(Head(s)) < Ord(Head(t))
    ELSE StrLess(Tail(s), Tail(t))

IsPrefix(p, s) == Len(p) <= Len(s) /\ SubSeq(s, 1, Len(p)) = p

IsSuffix(p, s) == Len(p) <= Len(s) /\ SubSeq(s, Len(s) - Len(p) + 1, Len(s)) = p

IsSubstring(p, s) == \E k \in 0..(Len(s) - Len(p)) : SubSeq(s, k + 1, k + Len(p)) = p

\* val > match for a string or a number match: numbers with numbers,
\* strings with strings, anything else is a TypeError
PyGt(val, match) ==
    IF val.t = "int" /\ match.t = "int" THEN PyBool(val.n > match.n)
    ELSE IF val.t = "str" /\ match.t = "str" THEN PyBool(StrLess(match.s, val.s))
    ELSE "TypeError"

\* val < match
PyLt(val, match) ==
    IF val.t = "int" /\ match.t = "int" THEN PyBool(val.n < match.n)
    ELSE IF val.t = "str" /\ match.t = "str" THEN PyBool(StrLess(val.s, match.s))
    ELSE "TypeError"

\* match in val: substring of a string (a TypeError for a match that is no
\* string), element of a list; a number or a dataclass instance is no container
PyIn(match, val) ==
    CASE val.t = "str" ->
            IF match.t = "str" THEN PyBool(IsSubstring(match.s, val.s)) ELSE "TypeError"
      [] val.t = "list" -> PyBool(\E k \in 1..Len(val.l) : val.l[k] = match)
      [] OTHER -> "TypeError"

\* match not in val
PyNotIn(match, val) ==
    LET r == PyIn(match, val)
    IN  IF r = "True" THEN "False" ELSE IF r = "False" THEN "True" ELSE r

\* val.startswith(match): only a string has the method
PyStartswith(val, match) ==
    IF val.t # "str" THEN "AttributeError"
    ELSE IF match.t # "str" THEN "TypeError"
    ELSE PyBool(IsPrefix(match.s, val.s))

\* val.endswith(match)
PyEndswith(val, match) ==
    IF val.t # "str" THEN "AttributeError"
    ELSE IF match.t # "str" THEN "TypeError"
    ELSE PyBool(IsSuffix(match.s, val.s))

\* any(...) of a generator: the first true element ends it, an element
\* that raises before that is the outcome
RECURSIVE PyAny(_)
PyAny(rs) ==
    IF rs = <<>> THEN "False"
    ELSE IF Head(rs) = "False" THEN PyAny(Tail(rs))
    ELSE Head(rs)

\* _eq: val in matches
check_eq(val, matches) == PyBool(\E k \in 1..Len(matches) : matches[k] = val)

\* _ne: val not in matches
check_ne(val, matches) == PyBool(~\E k \in 1..Len(matches) : matches[k] = val)

\* the except ValueError of _gt and _lt
ExceptValueError(r) == IF r = "ValueError" THEN "False" ELSE r

\* _gt
check_gt(val, matches) ==
    ExceptValueError(PyAny([k \in 1..Len(matches) |-> PyGt(val, matches[k])]))

\* _lt
check_lt(val, matches) ==
    ExceptValueError(PyAny([k \in 1..Len(matches) |-> PyLt(val, matches[k])]))

\* _contains
check_contains(val, matches) ==
    PyAny([k \in 1..Len(matches) |-> PyIn(matches[k], val)])

\* _not_contains
check_not_contains(val, matches) ==
    PyAny([k \in 1..Len(matches) |-> PyNotIn(matches[k], val)])

\* _startswith
check_startswith(val, matches) ==
    PyAny([k \in 1..Len(matches) |-> PyStartswith(val, matches[k])])

\* _endswith
check_endswith(val, matches) ==
    PyAny([k \in 1..Len(matches) |-> PyEndswith(val, matches[k])])

\* SurveySearch._checks
Checks ==
    {"eq", "ne", "gt", "lt", "contains", "not_contains", "startswith", "endswith"}

\* self._checks[condition](o, values)
Check(condition, val, matches) ==
    CASE condition = "eq" -> check_eq(val, matches)
      [] condition = "ne" -> check_ne(val, matches)
      [] condition = "gt" -> check_gt(val, matches)
      [] condition = "lt" -> check_lt(val, matches)
      [] condition = "contains" -> check_contains(val, matches)
      [] condition = "not_contains" -> check_not_contains(val, matches)
      [] condition = "startswith" -> check_startswith(val, matches)
      [] condition = "endswith" -> check_endswith(val, matches)
      [] OTHER -> "KeyError"

\* faulty variant of _flatten: the sublists in reverse order
RECURSIVE flattenReversed(_)
flattenReversed(l) ==
    IF l = <<>> THEN <<>> ELSE flattenReversed(Tail(l)) \o Head(l)

\* _flatten: itertools.chain.from_iterable
RECURSIVE flatten(_)
flatten(l) ==
    IF l = <<>> THEN <<>> ELSE Head(l) \o flatten(Tail(l))

\* str.isdigit of a path segment, and its int
IsDigit(key) == key \in {"0", "1", "2"}

ToInt(key) == CASE key = "0" -> 0 [] key = "1" -> 1 [] OTHER -> 2

Resolved_(vs) == [raised |-> "none", values |-> vs]

\* faulty variant of the except clause: the IndexError or AttributeError leaves as it is
RawError == [raised |-> "AttributeError", values |-> <<>>]

\* except (KeyError, IndexError, TypeError, AttributeError): raise SurveySearchQueryError
SearchQueryError == [raised |-> "SurveySearchQueryError", values |-> <<>>]

\* isinstance(o, (list, tuple))
IsList(o) == o.t = "list"

\* getattr(o, key) succeeds: a field of a dataclass instance (the field names
\* used are no attribute of str, int or list)
HasAttr(o, key) == o.t = "obj" /\ key \in DOMAIN o.f

\* _get_obj_attr: path is the dotted path split at its dots
RECURSIVE get_obj_attr(_, _)
get_obj_attr(o, path) ==
    LET key == Head(path)
        rest == Tail(path)
    IN  IF Len(path) > 1
        THEN IF IsDigit(key) /\ IsList(o)
             THEN IF ToInt(key) < Len(o.l)
                  THEN get_obj_attr(o.l[ToInt(key) + 1], rest)
                  ELSE SearchQueryError
             ELSE IF key = "*" /\ IsList(o)
             THEN LET rs == [k \in 1..Len(o.l) |-> get_obj_attr(o.l[k], rest)]
                  IN  IF \E k \in 1..Len(o.l) : rs[k].raised # "none"
                      THEN SearchQueryError
                      ELSE Resolved_(flatten([k \in 1..Len(o.l) |-> rs[k].values]))
             ELSE IF HasAttr(o, key)
                  THEN get_obj_attr(o.f[key], rest)
                  ELSE SearchQueryError
        ELSE IF IsDigit(key) /\ IsList(o)
             THEN IF ToInt(key) < Len(o.l)
                  THEN Resolved_(<<o.l[ToInt(key) + 1]>>)
                  ELSE SearchQueryError
             ELSE IF key = "*" /\ IsList(o)
             THEN Resolved_(o.l)
             ELSE IF HasAttr(o, key)
                  THEN Resolved_(<<o.f[key]>>)
                  ELSE SearchQueryError

\* any(self._checks[condition](o, values) for o in _get_obj_attr(i, attribute))
AnyCheck(i, attribute, condition, values) ==
    LET r == get_obj_attr(i, attribute)
    IN  IF r.raised # "none" THEN r.raised
        ELSE PyAny([k \in 1..Len(r.values) |->
                       Check(condition, r.values[k], values)])

\* the generator of where (keep = "True") and of where_not (keep = "False"),
\* drained: the instances it yields and what it raises
RECURSIVE Drain(_, _, _, _, _)
Drain(iter, attribute, condition, values, keep) ==
    IF iter = <<>> THEN [raised |-> "none", at |-> "none", items |-> <<>>]
    ELSE LET a == AnyCheck(Head(iter), attribute, condition, values)
         IN  IF a \notin {"True", "False"}
             THEN [raised |-> a, at |-> "next", items |-> <<>>]
             ELSE LET rest == Drain(Tail(iter), attribute, condition, values, keep)
                  IN  IF a = keep
                      THEN [rest EXCEPT !.items = <<Head(iter)>> \o @]
                      ELSE rest

InvalidCondition == [raised |-> "SurveySearchQueryError", at |-> "call", items |-> <<>>]

\* SurveySearch.where
where(iter, attribute, condition, values) ==
    IF condition \notin Checks THEN InvalidCondition
    ELSE Drain(iter, attribute, condition, values, "True")

\* faulty variant of where_not: keeps what where keeps
where_notKeeps(iter, attribute, condition, values) ==
    IF condition \notin Checks THEN InvalidCondition
    ELSE Drain(iter, attribute, condition, values, "True")

\* SurveySearch.where_not
where_not(iter, attribute, condition, values) ==
    IF condition \notin Checks THEN InvalidCondition
    ELSE Drain(iter, attribute, condition, values, "False")

\* cursor.where(...).where_not(...): the second generator draws from the first
Chained(iter, attribute, condition, values) ==
    LET a == where(iter, attribute, condition, values)
    IN  IF a.at = "call" THEN a
        ELSE LET b == where_not(a.items, attribute, condition, values)
             IN  IF b.raised # "none" \/ a.raised = "none" THEN b
                 ELSE [raised |-> a.raised, at |-> "next", items |-> b.items]

\* the instances of a resource type: dataclass fields id, size and tags,
\* a tag with key and value
Tag(key, value) == PyObj([key |-> PyStr(key), value |-> PyStr(value)])

Instances ==
    {PyObj([id |-> PyStr(<<"a">>), size |-> PyInt(1),
            tags |-> PyList(<<Tag(<<"a">>, <<"a">>), Tag(<<"b">>, <<"b">>)>>)]),
     PyObj([id |-> PyStr(<<"a", "b">>), size |-> PyInt(2),
            tags |-> PyList(<<Tag(<<"b">>, <<"a">>)>>)]),
     PyObj([id |-> PyStr(<<"b">>), size |-> PyInt(0), tags |-> PyList(<<>>)])}

\* sequences of at most n elements of S
SeqsUpTo(S, n) == UNION {[1..k -> S] : k \in 0..n}

\* get_resources(): the instances in the iteration order of the id set
Cursors ==
    {c \in SeqsUpTo(Instances, MaxCursor) :
        \A j, k \in DOMAIN c : j # k => c[j] # c[k]}

Attributes ==
    {<<"id">>, <<"size">>, <<"tags">>, <<"tags", "*">>, <<"tags", "*", "key">>,
     <<"tags", "0", "key">>, <<"tags", "1">>, <<"id", "0">>, <<"size", "*">>,
     <<"name">>, <<"tags", "*", "name">>}

Conditions == Checks \cup {"like"}

Candidates == {PyStr(<<"a">>), PyStr(<<"b">>), PyInt(1)}

ValueLists == SeqsUpTo(Candidates, MaxValues)

\* values a check is applied to
CheckedValues ==
    Candidates \cup {PyStr(<<"a", "b">>), PyInt(2), PyList(<<PyStr(<<"a">>)>>)}

NoFilter == [done |-> FALSE, raised |-> "none", at |-> "none", items |-> <<>>]
NoResolve == [done |-> FALSE, o |-> PyInt(0), raised |-> "none", values |-> <<>>]
NoCheck == [done |-> FALSE, val |-> PyInt(0), result |-> "none"]

QIdle ==
    [pc |-> "idle", iter |-> <<>>, attribute |-> <<"id">>, condition |-> "eq",
     values |-> <<>>, yes |-> NoFilter, no |-> NoFilter, chain |-> NoFilter,
     resolved |-> NoResolve, checked |-> NoCheck]

Filtered(r) == [done |-> TRUE, raised |-> r.raised, at |-> r.at, items |-> r.items]

notQ ==
    <<CONTEXTS, INCLUDE, crawlers, state, scan_results, call, task, deploy,
      fetched, activated, gci, pg, request, ret, sv, cur, ev, lk, wb, pw>>

\* list(cursor.where(attribute, condition, values)) on a new cursor
QueryWhere ==
    /\ q.pc \in {"idle", "filtered"}
    /\ ~q.yes.done
    /\ q' = [q EXCEPT !.pc = "filtered",
                      !.yes = Filtered(where(q.iter, q.attribute, q.condition, q.values))]
    /\ UNCHANGED notQ

\* list(cursor.where_not(attribute, condition, values)) on a new cursor
QueryWhereNot ==
    /\ q.pc \in {"idle", "filtered"}
    /\ ~q.no.done
    /\ q' = [q EXCEPT !.pc = "filtered",
                      !.no = Filtered(where_not(q.iter, q.attribute, q.condition, q.values))]
    /\ UNCHANGED notQ

\* list(cursor.where(...).where_not(...)) with the same arguments
QueryChain ==
    /\ q.pc = "idle"
    /\ q' = [q EXCEPT !.pc = "chained",
                      !.chain = Filtered(Chained(q.iter, q.attribute, q.condition, q.values))]
    /\ UNCHANGED notQ

\* _get_obj_attr(i, attribute) of one instance of the cursor
QueryResolve(k) ==
    /\ q.pc = "idle"
    /\ k \in 1..Len(q.iter)
    /\ LET r == get_obj_attr(q.iter[k], q.attribute)
       IN  q' = [q EXCEPT !.pc = "resolved",
                          !.resolved = [done |-> TRUE, o |-> q.iter[k],
                                        raised |-> r.raised, values |-> r.values]]
    /\ UNCHANGED notQ

\* one check applied to one value
QueryCheck(val) ==
    /\ q.pc = "idle"
    /\ q.condition \in Checks
    /\ q' = [q EXCEPT !.pc = "checked",
                      !.checked = [done |-> TRUE, val |-> val,
                                   result |-> Check(q.condition, val, q.values)]]
    /\ UNCHANGED notQ

(***************************************************************************)
(* SurveySearch cursors, element by element (survey/__init__.py 301-313,   *)
(* 347-353, 389-395, 447-455).  get_resources makes a generator over the   *)
(* id set; where and where_not wrap the generator of the cursor they are   *)
(* called on in a new generator.  The filters compare the id with 'eq'.    *)
(***************************************************************************)
CurAttribute == <<"id">>
CurCondition == "eq"

NoCurLast == [op |-> "none", cursor |-> 0, stop |-> FALSE, yielded |-> <<>>]

CurIdle ==
    [resources |-> <<>>, values |-> <<>>, iters |-> <<>>, cursors |-> <<>>,
     resolutions |-> 0, last |-> NoCurLast]

notCur ==
    <<CONTEXTS, INCLUDE, crawlers, state, scan_results, call, task, deploy,
      fetched, activated, gci, pg, request, ret, sv, q, ev, lk, wb, pw>>

\* the condition of the generator expression of where (keep = "True") and
\* where_not (keep = "False") on the instance i
Passes(filter, i) ==
    AnyCheck(i, CurAttribute, CurCondition, filter.values) = filter.keep

\* the generators of a cursor, innermost first, let the instance i through
PassesAll(filters, i) == \A k \in 1..Len(filters) : Passes(filters[k], i)

\* calls of _get_obj_attr while the instance i goes through the generators:
\* one per generator up to the first that drops it
ResolutionsFor(filters, i) ==
    IF PassesAll(filters, i) THEN Len(filters)
    ELSE CHOOSE k \in 1..Len(filters) :
             /\ ~Passes(filters[k], i)
             /\ \A j \in 1..(k - 1) : Passes(filters[j], i)

\* faulty variant: the generator expression is drained when it is built
PositionAfterCallDrained(pos, resources) == Len(resources)

\* position of the wrapped generator after where / where_not has built the
\* generator expression: iter() of a generator draws nothing
PositionAfterCall(pos, resources) == pos

\* SurveyResourceType.get_resources: a new generator over the id set
CurGetResources ==
    /\ Len(cur.iters) < MaxIterators
    /\ Len(cur.cursors) < MaxCursorObjects
    /\ cur' = [cur EXCEPT
                 !.iters = Append(@, 0),
                 !.cursors = Append(@, [base |-> Len(cur.iters) + 1, filters |-> <<>>]),
                 !.last = [op |-> "get_resources", cursor |-> Len(cur.cursors) + 1,
                           stop |-> FALSE, yielded |-> <<>>]]
    /\ UNCHANGED notCur

\* SurveySearch.where / where_not on the cursor c
CurFilter(c, keep, values) ==
    /\ c \in 1..Len(cur.cursors)
    /\ Len(cur.cursors) < MaxCursorObjects
    /\ LET base == cur.cursors[c].base
       IN  cur' = [cur EXCEPT
                     !.iters[base] = PositionAfterCall(@, cur.resources),
                     !.cursors = Append(@, [base |-> base,
                                            filters |-> Append(cur.cursors[c].filters,
                                                               [keep |-> keep,
                                                                values |-> values])]),
                     !.last = [op |-> IF keep = "True" THEN "where" ELSE "where_not",
                               cursor |-> c, stop |-> FALSE, yielded |-> <<>>]]
    /\ UNCHANGED notCur

CurWhere(c, values) == CurFilter(c, "True", values)

CurWhereNot(c, values) == CurFilter(c, "False", values)

\* next(cursor): SurveySearch.send draws from the wrapped generators until
\* an instance passes every one of them, or the id set is exhausted
CurNext(c) ==
    /\ c \in 1..Len(cur.cursors)
    /\ LET base == cur.cursors[c].base
           filters == cur.cursors[c].filters
           pos == cur.iters[base]
           hits == {k \in (pos + 1)..Len(cur.resources) :
                       PassesAll(filters, cur.resources[k])}
           stop == hits = {}
           to == IF stop THEN Len(cur.resources)
                 ELSE CHOOSE k \in hits : \A j \in hits : k <= j
           RECURSIVE Sum(_)
           Sum(k) == IF k > to THEN 0
                     ELSE ResolutionsFor(filters, cur.resources[k]) + Sum(k + 1)
       IN  cur' = [cur EXCEPT
                     !.iters[base] = to,
                     !.resolutions = @ + Sum(pos + 1),
                     !.last = [op |-> "next", cursor |-> c, stop |-> stop,
                               yielded |-> IF stop THEN <<>>
                                           ELSE <<cur.resources[to]>>]]
    /\ UNCHANGED notCur

(***************************************************************************)
(* Evaluations of one resource instance (crawler/generic.py 232-288).  A   *)
(* check takes the instance only and calls no evaluate itself.             *)
(***************************************************************************)
\* names of check functions that a resource type can declare
EvChecks == {"check_a", "check_b"}

\* names given to evaluate: the checks, the data attribute id, the method
\* asdict, and a name that is no attribute at all
EvNames == EvChecks \cup {"id", "asdict", "no_such_check"}

\* GenericCrawler.evaluations of the resource type: a tuple of names, one
\* name twice when an external evaluation has the name of a built-in one
EvDeclared ==
    {<<>>, <<"check_a">>, <<"check_a", "check_b">>, <<"check_a", "check_a">>}

\* what a called function returns: Result(status=True), Result(status=False)
\* or something that is no Result
EvOutcomes == {"True", "False", "NotResult"}

NoEvLast == [op |-> "none", name |-> "", raised |-> "none", returned |-> "none",
             outcome |-> "none", before |-> <<>>, key |-> ""]

\* attribute names given to setattr and delattr: two attributes that
\* __init__ set and one that the instance does not have
EvKeys == {"id", "results", "note"}

\* GenericCrawler.__init__: results = [], id set, _frozen = True
EvIdle ==
    [evaluations |-> <<>>, results |-> <<>>, frozen |-> TRUE,
     attrs |-> [k \in EvKeys |-> IF k = "note" THEN "absent" ELSE "set"],
     runs |-> [n \in EvNames |-> 0], called |-> [n \in EvNames |-> 0],
     failed |-> [n \in EvNames |-> 0], loop |-> 0, calls |-> 0, last |-> NoEvLast]

notEv ==
    <<CONTEXTS, INCLUDE, crawlers, state, scan_results, call, task, deploy,
      fetched, activated, gci, pg, request, ret, sv, q, cur, lk, wb, pw>>

\* faulty variant of passed: some recorded status is true
passedAny(results) ==
    \E k \in 1..Len(results) : results[k].status = "True"

\* GenericCrawler.passed: all(result[1].status for result in self.results)
RECURSIVE passed(_)
passed(results) ==
    IF results = <<>> THEN TRUE
    ELSE IF Head(results).status = "True" THEN passed(Tail(results))
    ELSE FALSE

\* faulty variant of the lookup: nothing is found
RecordedNever(results, evaluation) == <<>>

\* evaluate: for result in self.results: if result[0] == evaluation
Recorded(results, evaluation) ==
    SelectSeq(results, LAMBDA r : r.name = evaluation)

\* getattr(self, evaluation): a declared check function, the data attribute
\* id, the method asdict, or AttributeError
EvAttr(evaluations, evaluation) ==
    CASE \E k \in 1..Len(evaluations) : evaluations[k] = evaluation -> "check"
      [] evaluation = "id" -> "data"
      [] evaluation = "asdict" -> "method"
      [] OTHER -> "AttributeError"

\* faulty variant of evaluate: what the check returns is recorded as it is
evaluateUnchecked(e, evaluation, outcome) ==
    LET found == Recorded(e.results, evaluation)
        attr == EvAttr(e.evaluations, evaluation)
    IN  IF found # <<>>
        THEN [results |-> e.results, runs |-> e.runs, raised |-> "none",
              returned |-> Head(found).status]
        ELSE IF attr = "AttributeError"
        THEN [results |-> e.results, runs |-> e.runs,
              raised |-> "EvaluationMethodNotFoundError", returned |-> "none"]
        ELSE IF attr = "data"
        THEN [results |-> e.results, runs |-> e.runs,
              raised |-> "TypeError", returned |-> "none"]
        ELSE [results |-> Append(e.results, [name |-> evaluation, status |-> outcome]),
              runs |-> [e.runs EXCEPT ![evaluation] = @ + 1],
              raised |-> "none", returned |-> outcome]

\* GenericCrawler.evaluate; outcome is what the called function returns
evaluate(e, evaluation, outcome) ==
    LET found == Recorded(e.results, evaluation)
        attr == EvAttr(e.evaluations, evaluation)
    IN  IF found # <<>>
        THEN [results |-> e.results, runs |-> e.runs, raised |-> "none",
              returned |-> Head(found).status]
        ELSE IF attr = "AttributeError"
        THEN [results |-> e.results, runs |-> e.runs,
              raised |-> "EvaluationMethodNotFoundError", returned |-> "none"]
        ELSE IF attr = "data"
        THEN \* eval_func() on a str: 'str' object is not callable
             [results |-> e.results, runs |-> e.runs,
              raised |-> "TypeError", returned |-> "none"]
        ELSE IF attr = "method" \/ outcome = "NotResult"
        THEN \* asdict returns a dict; a check returned no Result
             [results |-> e.results,
              runs |-> [e.runs EXCEPT ![evaluation] = @ + 1],
              raised |-> "EvaluationMethodResultOutputError", returned |-> "none"]
        ELSE [results |-> Append(e.results, [name |-> evaluation, status |-> outcome]),
              runs |-> [e.runs EXCEPT ![evaluation] = @ + 1],
              raised |-> "none", returned |-> outcome]

\* the instance after one evaluate call with the given loop position
EvAfter(op, evaluation, outcome, loop) ==
    LET r == evaluate(ev, evaluation, outcome)
    IN  [ev EXCEPT !.results = r.results,
                   !.runs = r.runs,
                   !.called[evaluation] = @ + 1,
                   !.failed[evaluation] =
                       IF r.raised = "EvaluationMethodResultOutputError"
                       THEN @ + 1 ELSE @,
                   !.calls = @ + 1,
                   !.loop = IF r.raised = "none" THEN loop ELSE 0,
                   !.last = [op |-> op, name |-> evaluation, raised |-> r.raised,
                             returned |-> r.returned,
                             outcome |-> IF r.runs = ev.runs THEN "none"
                                         ELSE IF evaluation \in EvChecks THEN outcome
                                         ELSE "NotResult",
                             before |-> ev.results, key |-> ""]]

\* faulty variant of GenericCrawler_setattr: no test for _frozen
GenericCrawler_setattrUnfrozen(e, key) ==
    [e |-> [e EXCEPT !.attrs[key] = "assigned",
                     !.results = IF key = "results" THEN <<>> ELSE @],
     raised |-> "none"]

\* GenericCrawler.__setattr__: instance.<key> = a new value ([] for results)
GenericCrawler_setattr(e, key) ==
    IF e.frozen
    THEN [e |-> e, raised |-> "FrozenInstanceError"]
    ELSE [e |-> [e EXCEPT !.attrs[key] = "assigned",
                          !.results = IF key = "results" THEN <<>> ELSE @],
          raised |-> "none"]

\* GenericCrawler.__delattr__: del instance.<key>
GenericCrawler_delattr(e, key) ==
    IF e.frozen
    THEN [e |-> e, raised |-> "FrozenInstanceError"]
    ELSE IF e.attrs[key] = "absent"
    THEN [e |-> e, raised |-> "AttributeError"]
    ELSE [e |-> [e EXCEPT !.attrs[key] = "absent",
                          !.results = IF key = "results" THEN <<>> ELSE @],
          raised |-> "none"]

\* instance.<key> = value by an evaluation or a report
EvSetAttr(key) ==
    LET r == GenericCrawler_setattr(ev, key)
    IN  /\ ev.loop = 0
        /\ ev' = [r.e EXCEPT !.last = [NoEvLast EXCEPT !.op = "setattr",
                                                       !.key = key,
                                                       !.raised = r.raised,
                                                       !.before = ev.results]]
        /\ UNCHANGED notEv

\* del instance.<key> by an evaluation or a report
EvDelAttr(key) ==
    LET r == GenericCrawler_delattr(ev, key)
    IN  /\ ev.loop = 0
        /\ ev' = [r.e EXCEPT !.last = [NoEvLast EXCEPT !.op = "delattr",
                                                       !.key = key,
                                                       !.raised = r.raised,
                                                       !.before = ev.results]]
        /\ UNCHANGED notEv

\* instance.evaluate(evaluation) called by an evaluation or a report
EvEvaluate(evaluation, outcome) ==
    /\ ev.loop = 0
    /\ ev.calls < MaxEvaluateCalls
    /\ ev' = EvAfter("evaluate", evaluation, outcome, 0)
    /\ UNCHANGED notEv

\* run_evaluations: the loop over self.evaluations starts
EvRunEvaluations ==
    /\ ev.loop = 0
    /\ ev.evaluations # <<>>
    /\ ev.calls < MaxEvaluateCalls
    /\ ev' = [ev EXCEPT !.loop = 1,
                        !.last = [NoEvLast EXCEPT !.op = "run_evaluations",
                                                  !.before = ev.results]]
    /\ UNCHANGED notEv

\* run_evaluations: self.evaluate(evaluation=evaluation) of the next name
EvRunStep(outcome) ==
    /\ ev.loop > 0
    /\ ev' = EvAfter("run_evaluations", ev.evaluations[ev.loop], outcome,
                     IF ev.loop < Len(ev.evaluations) THEN ev.loop + 1 ELSE 0)
    /\ UNCHANGED notEv

(***************************************************************************)
(* Crawler.scan after deploy_crawlers: the returned buckets and the        *)
(* evaluations of their instances (crawler/__init__.py 791-807).           *)
(***************************************************************************)
\* GenericCrawler.evaluations of the units: the names of the evaluation
\* functions of the unit's module followed by the external ones; an
\* external evaluation with the name of an earlier one gives the name twice
EvaluationsOf(u) ==
    CASE u = "kms.key" -> <<"check_a", "check_b">>
      [] u = "route53.hosted_zone" -> <<"check_b">>
      [] u = "route53.record_set" -> <<"check_a", "check_a">>
      [] OTHER -> <<>>

\* run_evaluations from the k-th name on; outs is what each check returns
RECURSIVE run_evaluations_from(_, _, _)
run_evaluations_from(e, k, outs) ==
    IF k > Len(e.evaluations)
    THEN [results |-> e.results, runs |-> e.runs, raised |-> "none"]
    ELSE LET r == evaluate(e, e.evaluations[k], outs[e.evaluations[k]])
         IN  IF r.raised # "none"
             THEN [results |-> r.results, runs |-> r.runs, raised |-> r.raised]
             ELSE run_evaluations_from([e EXCEPT !.results = r.results,
                                                 !.runs = r.runs], k + 1, outs)

\* faulty variant of run_evaluations: the names are taken in reverse order
run_evaluationsReversed(evaluations, outs) ==
    run_evaluations_from(
        [evaluations |-> [k \in 1..Len(evaluations) |->
                             evaluations[Len(evaluations) + 1 - k]],
         results |-> <<>>, runs |-> [n \in EvNames |-> 0]], 1, outs)

\* GenericCrawler.run_evaluations on an instance that was just built
run_evaluations(evaluations, outs) ==
    run_evaluations_from(
        [evaluations |-> evaluations, results |-> <<>>,
         runs |-> [n \in EvNames |-> 0]], 1, outs)

\* Crawler.scan builds RETURN_COLLECTION and runs the evaluations of every
\* instance in it, one instance after the other; the first exception of an
\* evaluation leaves scan
CrawlerScanReturn ==
    /\ deploy.pc = "returned"
    /\ ~ret.present
    /\ ret.raised = "none"
    /\ \A u \in crawlers : scan_results[u].present
    /\ LET collection == RETURN_COLLECTION(crawlers, scan_results)
           instances == UNION {{<<u, i>> : i \in collection[u]} : u \in crawlers}
       IN  \E order \in Orders(instances),
              outs \in [instances -> [EvChecks -> EvOutcomes]] :
             LET run(x) == run_evaluations(EvaluationsOf(x[1]), outs[x])
                 failing == {k \in DOMAIN order : run(order[k]).raised # "none"}
                 stop == IF failing = {} THEN Len(order) + 1
                         ELSE CHOOSE k \in failing : \A j \in failing : k <= j
                 at(x) == CHOOSE k \in DOMAIN order : order[k] = x
             IN  ret' = [present |-> failing = {},
                         collection |-> IF failing = {} THEN collection ELSE <<>>,
                         raised |-> IF failing = {} THEN "none"
                                    ELSE run(order[stop]).raised,
                         results |-> [x \in instances |->
                                         IF at(x) <= stop THEN run(x).results
                                         ELSE <<>>]]
    /\ UNCHANGED <<CONTEXTS, INCLUDE, crawlers, state, scan_results, call, task,
                   deploy, fetched, activated, gci, pg, request, sv, q, cur, ev, lk, wb, pw>>

(***************************************************************************)
(* Specifications.                                                         *)
(***************************************************************************)
NoInclude == [u \in Units |-> {}]

(***************************************************************************)
(* Lookup of a resource by identifier (survey/__init__.py).  An id is a    *)
(* sequence of characters.  A resource type keeps the ids it was given in  *)
(* the set resources and each resource as the attribute named by the       *)
(* serialized id; the lookups are modelled on a survey under construction, *)
(* one service with the resource types in the order they were added.       *)
(***************************************************************************)
\* string.punctuation, as far as the ids here use it
punctuation == {"-", ".", "_"}

\* re.sub('[' + chars + ']', '_', resource_id)
serialize_resource_id(resource_id) ==
    [k \in 1..Len(resource_id) |->
        IF resource_id[k] \in punctuation THEN "_" ELSE resource_id[k]]

LkTypes == <<"t1", "t2">>

LkIds == {<<"a", "-", "b">>, <<"a", ".", "b">>, <<"a", "_", "b">>, <<"a", "b">>}

\* the attribute names the ids are stored under
LkNames == {serialize_resource_id(id) : id \in LkIds}

NoResource == [type |-> "", id |-> <<>>]

NoLkLast == [op |-> "none", id |-> <<>>, type |-> "", raised |-> "none",
             returned |-> NoResource]

\* SurveyResourceType.__init__ for every resource type
LkIdle ==
    [resources |-> [t \in {LkTypes[1], LkTypes[2]} |-> {}],
     attrs |-> [t \in {LkTypes[1], LkTypes[2]} |-> [n \in LkNames |-> NoResource]],
     last |-> NoLkLast]

notLk ==
    <<CONTEXTS, INCLUDE, crawlers, state, scan_results, call, task, deploy,
      fetched, activated, gci, pg, request, ret, sv, q, cur, ev, wb, pw>>

\* SurveyResourceType._add_resource
LkAddResource(t, id) ==
    /\ lk' = [lk EXCEPT
                !.resources[t] = @ \cup {id},
                !.attrs[t][serialize_resource_id(id)] = [type |-> t, id |-> id],
                !.last = [NoLkLast EXCEPT !.op = "_add_resource", !.id = id,
                                          !.type = t]]
    /\ UNCHANGED notLk

\* SurveyResourceType.get_resource: the outcome of the call
SurveyResourceType_get_resource(l, t, resource) ==
    LET name == serialize_resource_id(resource) IN
    IF name \in LkNames /\ l.attrs[t][name] # NoResource
    THEN [raised |-> "none", returned |-> l.attrs[t][name]]
    ELSE [raised |-> "SurveyAttributeError", returned |-> NoResource]

\* SurveyService.get_resource and Survey.get_resource: the first resource
\* type whose resources hold the serialized id answers
Survey_get_resource(l, id) ==
    LET sid == serialize_resource_id(id)
        found == {k \in 1..Len(LkTypes) : sid \in l.resources[LkTypes[k]]}
    IN  IF found = {}
        THEN [raised |-> "SurveyAttributeError", returned |-> NoResource]
        ELSE LET first == CHOOSE k \in found : \A j \in found : k <= j
             IN  SurveyResourceType_get_resource(l, LkTypes[first], sid)

LkAfter(op, t, id, r) ==
    /\ lk' = [lk EXCEPT !.last = [op |-> op, id |-> id, type |-> t,
                                  raised |-> r.raised, returned |-> r.returned]]
    /\ UNCHANGED notLk

LkTypeGetResource(t, id) ==
    LkAfter("SurveyResourceType.get_resource", t, id,
            SurveyResourceType_get_resource(lk, t, id))

LkServiceGetResource(id) ==
    LkAfter("SurveyService.get_resource", "", id, Survey_get_resource(lk, id))

LkSurveyGetResource(id) ==
    LkAfter("Survey.get_resource", "", id, Survey_get_resource(lk, id))

(***************************************************************************)
(* The whiteboard (whiteboard.py).  The board maps a section name to a     *)
(* dict of entries; a dict is modelled as the sequence of its items in     *)
(* insertion order, an item being [title, message, signature].             *)
(***************************************************************************)
WbSections == {"scribbles", "notes"}

WbTitles == {"t1", "t2"}

\* the (message, signature) pairs callers write
WbWrites == {<<"m1", "">>, <<"m2", "g1">>}

\* the signatures callers ask for; the empty string is the default of the
\* signature parameter
WbSignatures == {"", "g1"}

\* the arguments callers pass: the empty string is a possible argument
WbSectionArgs == WbSections \cup {""}

WbTitleArgs == WbTitles \cup {""}

\* self.board = {}
EmptyBoard == [sections |-> {}, data |-> [x \in WbSections |-> <<>>]]

\* title in data
HasTitle(data, title) == \E k \in 1..Len(data) : data[k].title = title

\* data[title]
EntryOf(data, title) ==
    data[CHOOSE k \in 1..Len(data) : data[k].title = title]

\* data[title] = {'message': msg, 'signature': signature}
SetItem(data, title, msg, signature) ==
    LET item == [title |-> title, message |-> msg, signature |-> signature] IN
    IF HasTitle(data, title)
    THEN [k \in 1..Len(data) |-> IF data[k].title = title THEN item ELSE data[k]]
    ELSE Append(data, item)

\* del data[title]
DelItem(data, title) ==
    LET Other(item) == item.title # title IN SelectSeq(data, Other)

\* scribble stores the message itself, not a dict: such an item carries
\* this mark in place of a signature, and entry['signature'] on it raises
\* TypeError
Bare == "<str>"

IsBare(item) == item.signature = Bare

\* an entry as a caller receives it: {'message': ..., 'signature': ...}
EntryDict(item) == [message |-> item.message, signature |-> item.signature]

WbResult(board, raised) ==
    [board |-> board, raised |-> raised, returned |-> <<>>, copy |-> <<>>]

\* Whiteboard.new_section
new_section(board, section) ==
    IF section = ""
    THEN WbResult(board, "WhiteboardCreateSectionError")
    ELSE IF section \notin board.sections
    THEN WbResult([board EXCEPT !.sections = @ \cup {section}], "none")
    ELSE WbResult(board, "none")

\* a get_section that answers a missing section with an empty copy
get_sectionDefault(board, section) == WbResult(board, "none")

\* Whiteboard.get_section
get_section(board, section) ==
    IF section \in board.sections
    THEN [WbResult(board, "none") EXCEPT !.copy = board.data[section]]
    ELSE WbResult(board, "WhiteboardGetSectionError")

\* Whiteboard.remove_section
remove_section(board, section) ==
    IF section \in board.sections
    THEN WbResult([board EXCEPT !.sections = @ \ {section},
                                !.data[section] = <<>>], "none")
    ELSE WbResult(board, "WhiteboardRemoveSectionError")

\* a write that overwrites whatever the overwrite flag says
writeAlways(board, section, title, msg, signature, overwrite) ==
    IF title = ""
    THEN WbResult(board, "WhiteboardWriteError")
    ELSE LET created == new_section(board, section) IN
         IF created.raised # "none"
         THEN created
         ELSE WbResult([created.board EXCEPT
                           !.data[section] = SetItem(@, title, msg, signature)],
                       "none")

\* Whiteboard.write
write(board, section, title, msg, signature, overwrite) ==
    IF title = ""
    THEN WbResult(board, "WhiteboardWriteError")
    ELSE LET created == new_section(board, section) IN
         IF created.raised # "none"
         THEN created
         ELSE IF HasTitle(created.board.data[section], title) /\ ~overwrite
         THEN WbResult(created.board, "none")
         ELSE WbResult([created.board EXCEPT
                           !.data[section] = SetItem(@, title, msg, signature)],
                       "none")

\* Whiteboard.get
get(board, section, title, signature) ==
    LET got == get_section(board, section)
        data == got.copy
        Carries(item) == item.signature = signature
        matching == SelectSeq(data, Carries)
        list ==
            IF title # "" /\ ~HasTitle(data, title)
            THEN <<>>                       \* KeyError: pass
            ELSE IF title # ""
            THEN <<EntryDict(EntryOf(data, title))>>
                 \* with a signature that differs the first if falls through
                 \* to the second, which returns the entry as well
            ELSE IF signature # ""
            THEN [k \in 1..Len(matching) |-> EntryDict(matching[k])]
            ELSE <<>>
        \* entry['signature'] of a bare message: TypeError
        typeError ==
            \/ title # "" /\ signature # "" /\ HasTitle(data, title)
                  /\ IsBare(EntryOf(data, title))
            \/ title = "" /\ signature # ""
                  /\ \E k \in 1..Len(data) : IsBare(data[k])
    IN  IF got.raised # "none"
        THEN got
        ELSE IF typeError
        THEN WbResult(board, "WhiteboardGetError")
        ELSE [WbResult(board, "none") EXCEPT !.returned = list]

\* an erase that ignores the signature when a title is given
eraseByTitle(board, section, title, signature) ==
    LET got == get_section(board, section)
        data == got.copy
        Other(item) == item.signature # signature
    IN  IF got.raised # "none"
        THEN got
        ELSE IF title # ""
        THEN IF HasTitle(data, title)
             THEN WbResult([board EXCEPT !.data[section] = DelItem(@, title)], "none")
             ELSE WbResult(board, "WhiteboardEraseError")
        ELSE IF signature # ""
        THEN WbResult([board EXCEPT !.data[section] = SelectSeq(@, Other)], "none")
        ELSE WbResult(board, "none")

\* Whiteboard.erase
erase(board, section, title, signature) ==
    LET got == get_section(board, section)
        data == got.copy
        Other(item) == item.signature # signature
        \* the loop over data.items() stops with TypeError at the first
        \* bare message; the entries deleted before it stay deleted
        bare == {k \in 1..Len(data) : IsBare(data[k])}
        first == CHOOSE k \in bare : \A j \in bare : k <= j
        kept == [k \in 1..Len(data) |->
                    IF k < first /\ data[k].signature = signature
                    THEN "" ELSE data[k].title]
        Kept(item) == \E k \in 1..Len(data) : kept[k] = item.title
    IN  IF got.raised # "none"
        THEN got
        ELSE IF title # "" /\ signature # "" /\ HasTitle(data, title)
                /\ IsBare(EntryOf(data, title))
        THEN WbResult(board, "WhiteboardEraseError")
        ELSE IF title = "" /\ signature # "" /\ bare # {}
        THEN WbResult([board EXCEPT !.data[section] = SelectSeq(@, Kept)],
                      "WhiteboardEraseError")
        ELSE IF title # "" /\ signature # ""
        THEN IF ~HasTitle(data, title)
             THEN WbResult(board, "WhiteboardEraseError")
             ELSE IF EntryOf(data, title).signature = signature
             THEN WbResult([board EXCEPT !.data[section] = DelItem(@, title)], "none")
             ELSE WbResult(board, "none")
        ELSE IF title # ""
        THEN IF HasTitle(data, title)
             THEN WbResult([board EXCEPT !.data[section] = DelItem(@, title)], "none")
             ELSE WbResult(board, "WhiteboardEraseError")
        ELSE IF signature # ""
        THEN WbResult([board EXCEPT !.data[section] = SelectSeq(@, Other)], "none")
        ELSE WbResult(board, "none")

\* a scribble that makes sure of its section, as write does
scribbleCreates(board, title, msg) ==
    IF title = ""
    THEN WbResult(board, "WhiteboardWriteError")
    ELSE WbResult([new_section(board, "scribbles").board EXCEPT
                      !.data["scribbles"] = SetItem(@, title, msg, Bare)],
                  "none")

\* Whiteboard.scribble: self.board['scribbles'][title] = msg
scribble(board, title, msg) ==
    IF title = ""
    THEN WbResult(board, "WhiteboardWriteError")
    ELSE IF "scribbles" \notin board.sections
    THEN WbResult(board, "KeyError")
    ELSE WbResult([board EXCEPT !.data["scribbles"] = SetItem(@, title, msg, Bare)],
                  "none")

\* Whiteboard.get_scribble: the first entry of get, or None (no entry)
get_scribble(board, title) == get(board, "scribbles", title, "")

NoWbLast ==
    [op |-> "none", section |-> "", title |-> "", msg |-> "", signature |-> "",
     overwrite |-> FALSE, raised |-> "none", returned |-> <<>>, copy |-> <<>>,
     had |-> FALSE, existed |-> FALSE, deleted |-> 0]

\* Whiteboard.__init__
WbIdle == [board |-> new_section(EmptyBoard, "scribbles").board, last |-> NoWbLast]

notWb ==
    <<CONTEXTS, INCLUDE, crawlers, state, scan_results, call, task, deploy,
      fetched, activated, gci, pg, request, ret, sv, q, cur, ev, lk, pw>>

\* number of entries on the board
RECURSIVE WbCount(_, _)
WbCount(board, names) ==
    IF names = {} THEN 0
    ELSE LET x == CHOOSE x \in names : TRUE
         IN  Len(board.data[x]) + WbCount(board, names \ {x})

\* the board after a call, and what the call was and gave
WbAfter(op, section, title, msg, signature, overwrite, r) ==
    /\ wb' = [board |-> r.board,
              last |-> [op |-> op, section |-> section, title |-> title,
                        msg |-> msg, signature |-> signature,
                        overwrite |-> overwrite, raised |-> r.raised,
                        returned |-> r.returned, copy |-> r.copy,
                        had |-> section \in wb.board.sections,
                        existed |-> /\ section \in wb.board.sections
                                    /\ HasTitle(wb.board.data[section], title),
                        deleted |-> WbCount(wb.board, WbSections)
                                    - WbCount(r.board, WbSections)]]
    /\ UNCHANGED notWb

WbNewSection(section) ==
    WbAfter("new_section", section, "", "", "", FALSE,
            new_section(wb.board, section))

WbGetSection(section) ==
    WbAfter("get_section", section, "", "", "", FALSE,
            get_section(wb.board, section))

WbRemoveSection(section) ==
    WbAfter("remove_section", section, "", "", "", FALSE,
            remove_section(wb.board, section))

WbWrite(section, title, msg, signature, overwrite) ==
    WbAfter("write", section, title, msg, signature, overwrite,
            write(wb.board, section, title, msg, signature, overwrite))

WbGet(section, title, signature) ==
    WbAfter("get", section, title, "", signature, FALSE,
            get(wb.board, section, title, signature))

WbErase(section, title, signature) ==
    WbAfter("erase", section, title, "", signature, FALSE,
            erase(wb.board, section, title, signature))

WbScribble(title, msg) ==
    WbAfter("scribble", "scribbles", title, msg, "", FALSE,
            scribble(wb.board, title, msg))

WbGetScribble(title) ==
    WbAfter("get_scribble", "scribbles", title, "", "", FALSE,
            get_scribble(wb.board, title))

(***************************************************************************)
(* PaginateWrapper.paginate (crawler/generic.py 60-96): a generator over   *)
(* the pages of an operation without a native paginator.  A page is the    *)
(* set of the continuation keys it holds and its IsTruncated entry.        *)
(***************************************************************************)
\* page_marker of the service definition: None, or the name of a key
PageMarkers == {"", "NextMarker", "Marker"}

PageKeys == {"NextToken", "NextMarker", "Marker"}

\* what the wrapped operation can return
WrapperPages ==
    [keys : SUBSET PageKeys, IsTruncated : {"absent", "True", "False"}]

NoPage == [keys |-> {}, IsTruncated |-> "absent"]

\* the key tested by 'in page' and the key read in the IsTruncated loop
NextKey(page_marker) == IF page_marker = "" THEN "NextToken" ELSE page_marker

TruncatedKey(page_marker) == IF page_marker = "" THEN "Marker" ELSE page_marker

\* faulty variant of Resume: the generator stops after its first page
ResumeStops(page_marker, at, page) == [do |-> "stop", at |-> at]

\* the generator is resumed after the yield of 'page': it calls the
\* operation again and yields, returns, or raises KeyError; 'at' is the
\* place of the yield: after the first call, in a loop on the next-marker
\* key, or in a loop on IsTruncated
Resume(page_marker, at, page) ==
    LET truncated ==
            IF page.IsTruncated = "absent" THEN [do |-> "KeyError", at |-> at]
            ELSE IF page.IsTruncated = "False" THEN [do |-> "stop", at |-> at]
            ELSE IF TruncatedKey(page_marker) \in page.keys
            THEN [do |-> "call", at |-> "truncated"]
            ELSE [do |-> "KeyError", at |-> at]
    IN  CASE at = "first" ->
                IF NextKey(page_marker) \in page.keys
                THEN [do |-> "call", at |-> "marker"]
                ELSE IF page.IsTruncated # "absent"
                THEN truncated
                ELSE [do |-> "stop", at |-> at]
          [] at = "marker" ->
                IF NextKey(page_marker) \in page.keys
                THEN [do |-> "call", at |-> "marker"]
                ELSE [do |-> "stop", at |-> at]
          [] OTHER -> truncated

PwIdle == [pc |-> "new", page_marker |-> "", at |-> "first", page |-> NoPage,
           prev |-> NoPage, calls |-> 0, yielded |-> 0]

notPw ==
    <<CONTEXTS, INCLUDE, crawlers, state, scan_results, call, task, deploy,
      fetched, activated, gci, pg, request, ret, sv, q, cur, ev, lk, wb>>

\* the first next(): page = self.func(**kwargs); yield page
PwStart(page) ==
    /\ pw.pc = "new"
    /\ pw' = [pw EXCEPT !.pc = "yielded", !.page = page, !.calls = 1,
                        !.yielded = 1]
    /\ UNCHANGED notPw

\* a later next(); 'page' is what the operation returns if it is called
PwResume(page) ==
    LET r == Resume(pw.page_marker, pw.at, pw.page)
    IN  /\ pw.pc = "yielded"
        /\ pw.calls < MaxWrapperCalls
        /\ CASE r.do = "call" ->
                  pw' = [pw EXCEPT !.at = r.at, !.prev = pw.page, !.page = page,
                                   !.calls = @ + 1, !.yielded = @ + 1]
             [] r.do = "stop" ->
                  pw' = [pw EXCEPT !.pc = "stopped", !.prev = pw.page]
             [] OTHER ->
                  pw' = [pw EXCEPT !.pc = "KeyError", !.prev = pw.page]
        /\ UNCHANGED notPw

\* the cursors, the evaluations, the lookups and the whiteboard at rest
LaterIdle ==
    /\ cur = CurIdle
    /\ ev = EvIdle
    /\ lk = LkIdle
    /\ wb = WbIdle
    /\ pw = PwIdle


SchedulerIdle ==
    /\ scan_results = [u \in Units |-> NoBucket]
    /\ call = <<>>
    /\ task = <<>>
    /\ deploy = [pc |-> "init", err |-> "none", cause |-> "none"]
    /\ fetched = [x \in Units \X CtxIds |-> 0]
    /\ activated = [u \in Units |-> 0]

\* Crawler.__init__: the requested crawlers, the includes that external
\* evaluations add, and the contexts of the requested crawlers' services
Requests == {R \in SUBSET Units : Cardinality(R) \in 1..2}

\* Crawler(services, skip): the units asked for by name, or the route53
\* package without route53.hosted_zone
RequestOptions ==
    {[services |-> R, skip |-> {}] : R \in Requests}
    \cup {[services |-> {"route53"}, skip |-> {"route53.hosted_zone"}]}

\* external includes: a route53 unit that needs a kms unit, a kms unit that
\* needs the route53 package
IncludeOptions(R) ==
    {NoInclude}
    \cup {[NoInclude EXCEPT !["route53.hosted_zone"] = {"kms.key"}] : x \in
            {y \in {R} : \A u \in y : serviceType(u) = "route53"}}
    \cup {[NoInclude EXCEPT !["kms.key_id"] = {"route53"}] : x \in
            {y \in {R} : y = {"kms.key_id"}}}

\* sessions (accounts x regions) of a run: two, or one when two units are requested
Sessions(R) ==
    {ar \in Prefixes(Accounts) \X Prefixes(Regions) :
        Len(ar[1]) * Len(ar[2]) * Cardinality(R) <= MaxSessions}

Init ==
    /\ request \in RequestOptions
    /\ crawlers = get_crawlers(request.services, request.skip)
    /\ INCLUDE \in IncludeOptions(crawlers)
    /\ CONTEXTS \in {InitContexts(ar[1], ar[2], o) :
                        ar \in Sessions(crawlers),
                        o \in Orders({serviceType(u) : u \in crawlers})}
    /\ state = [u \in Units |-> "initialized"]
    /\ SchedulerIdle
    /\ gci = GciIdle
    /\ pg = PgIdle
    /\ ret = NoReturn
    /\ sv = SvIdle
    /\ LaterIdle
    /\ q = QIdle

Next ==
    \/ DeployStart
    \/ DeployReturn
    \/ CrawlerScanReturn
    \/ \E u \in Units : DeployRaise(u)
    \/ \E x \in DOMAIN call : AsyncScanStep(x[1], x[2])
    \/ \E x \in DOMAIN call : ScanComplete(x[1], x[2])
    \/ \E x \in DOMAIN call, c \in DOMAIN CONTEXTS : ScanRaise(x[1], x[2], c)
    \/ \E x \in DOMAIN task, found \in BOOLEAN : ScanContextStart(x[1], x[2], found)
    \/ \E x \in DOMAIN task : PaginateRead(x[1], x[2])
    \/ \E x \in DOMAIN task, d \in Units : PaginateDepsRaise(x[1], x[2], d)
    \/ \E x \in DOMAIN task, out \in FetchOutcomes : ScanContextAttempt(x[1], x[2], out)

Spec == Init /\ [][Next]_vars

\* runs in which no remote fetch raises an error: every paginator is found,
\* every attempt returns its pages and every metadata class exists
QuietOutcomes == {o \in FetchOutcomes : o.raised = "none" /\ o.built = o.ids}

NextQuiet ==
    \/ DeployStart
    \/ DeployReturn
    \/ CrawlerScanReturn
    \/ \E u \in Units : DeployRaise(u)
    \/ \E x \in DOMAIN call : AsyncScanStep(x[1], x[2])
    \/ \E x \in DOMAIN call : ScanComplete(x[1], x[2])
    \/ \E x \in DOMAIN call, c \in DOMAIN CONTEXTS : ScanRaise(x[1], x[2], c)
    \/ \E x \in DOMAIN task : ScanContextStart(x[1], x[2], TRUE)
    \/ \E x \in DOMAIN task : PaginateRead(x[1], x[2])
    \/ \E x \in DOMAIN task, d \in Units : PaginateDepsRaise(x[1], x[2], d)
    \/ \E x \in DOMAIN task, out \in QuietOutcomes : ScanContextAttempt(x[1], x[2], out)

\* the event loop runs every coroutine that is ready
SpecQuiet == Init /\ [][NextQuiet]_vars /\ WF_vars(NextQuiet)

\* every remote fetch ends, with pages or with an error, and the event
\* loop runs every coroutine that is ready
SpecLive == Init /\ [][Next]_vars /\ WF_vars(Next)

\* the dependency closure alone, over every small INCLUDE graph, with no
\* unit or one unit already scanned
InitClosure ==
    /\ crawlers = {}
    /\ INCLUDE = NoInclude
    /\ CONTEXTS = <<>>
    /\ SchedulerIdle
    /\ state \in {[u \in Units |-> IF u \in S THEN "complete" ELSE "initialized"] :
                    S \in {T \in SUBSET Units : Cardinality(T) <= 1}}
    /\ gci = GciIdle
    /\ pg = PgIdle
    /\ request = NoRequest
    /\ ret = NoReturn
    /\ sv = SvIdle
    /\ LaterIdle
    /\ q = QIdle

NextClosure ==
    \/ \E u \in Units, r \in Refs : ApplyExternalIncludes(u, r)
    \/ \E R \in SUBSET Units : GciStart(R)
    \/ GciCall
    \/ GciAgain

SpecClosure == InitClosure /\ [][NextClosure]_vars

SpecClosureLive == SpecClosure /\ WF_vars(GciCall) /\ WF_vars(GciAgain)

\* one call of async_paginate, over every small list of identifiers
IdValueLists == UNION {[1..n -> IdPool \cup IdChunks] : n \in 0..MaxIdValues}

InitPaginate ==
    /\ crawlers = {}
    /\ INCLUDE = NoInclude
    /\ CONTEXTS = <<>>
    /\ state = [u \in Units |-> "initialized"]
    /\ SchedulerIdle
    /\ gci = GciIdle
    /\ pg = PgIdle
    /\ request = NoRequest
    /\ ret = NoReturn
    /\ sv = SvIdle
    /\ LaterIdle
    /\ q = QIdle

NextPaginate ==
    \/ \E context \in PaginatorContexts, function \in PaginatorFunctions,
          id_key \in BOOLEAN, id_values \in IdValueLists :
            PaginateCall(context, function, id_key, id_values)
    \/ \E k \in IdPool \cup {"resource"}, outcome \in {"pages"} \cup RemoteErrors :
            ResolvePages(k, outcome)
    \/ PaginateAttemptEnds

SpecPaginate == InitPaginate /\ [][NextPaginate]_vars

InitSurvey ==
    /\ crawlers = {}
    /\ INCLUDE = NoInclude
    /\ CONTEXTS = <<>>
    /\ state = [u \in Units |-> "initialized"]
    /\ SchedulerIdle
    /\ gci = GciIdle
    /\ pg = PgIdle
    /\ request = NoRequest
    /\ ret = NoReturn
    /\ sv = SvIdle
    /\ LaterIdle
    /\ q = QIdle

NextSurvey ==
    \/ \E service \in SvServices : Survey_add_service(service)
    \/ \E service \in SvServices, resource_type \in SvTypes :
            SurveyService_add_resource_type(service, resource_type)
    \/ \E service \in SvServices, resource_type \in SvTypes, id \in SvIds :
            SurveyResourceType_add_resource(service, resource_type, id)
    \/ SurveyPublish
    \/ \E n \in SvNodes : \E c \in SvChildren(n) : SurveySetAttr(n, c)
    \/ \E n \in SvNodes : \E c \in SvChildren(n) : SurveyDelAttr(n, c)
    \/ \E resources \in SUBSET SvIds : MakeSurvey(resources)
    \/ \E key \in SvIds : FrozenDict_setitem(key)
    \/ \E key \in SvIds : FrozenDict_delitem(key)
    \/ \E key \in SvIds : FrozenDict_update(key)
    \/ \E key \in SvIds : FrozenDict_pop(key)

SpecSurvey == InitSurvey /\ [][NextSurvey]_vars

InitQuery ==
    /\ crawlers = {}
    /\ INCLUDE = NoInclude
    /\ CONTEXTS = <<>>
    /\ state = [u \in Units |-> "initialized"]
    /\ SchedulerIdle
    /\ gci = GciIdle
    /\ pg = PgIdle
    /\ request = NoRequest
    /\ ret = NoReturn
    /\ sv = SvIdle
    /\ LaterIdle
    /\ \E iter \in Cursors, attribute \in Attributes, condition \in Conditions,
          values \in ValueLists :
            q = [QIdle EXCEPT !.iter = iter, !.attribute = attribute,
                              !.condition = condition, !.values = values]

NextQuery ==
    \/ QueryWhere
    \/ QueryWhereNot
    \/ QueryChain
    \/ \E k \in 1..MaxCursor : QueryResolve(k)
    \/ \E val \in CheckedValues : QueryCheck(val)

SpecQuery == InitQuery /\ [][NextQuery]_vars

InitCursor ==
    /\ crawlers = {}
    /\ INCLUDE = NoInclude
    /\ CONTEXTS = <<>>
    /\ state = [u \in Units |-> "initialized"]
    /\ SchedulerIdle
    /\ gci = GciIdle
    /\ pg = PgIdle
    /\ request = NoRequest
    /\ ret = NoReturn
    /\ sv = SvIdle
    /\ q = QIdle
    /\ ev = EvIdle
    /\ lk = LkIdle
    /\ wb = WbIdle
    /\ pw = PwIdle
    /\ \E resources \in Cursors, v \in Candidates :
            cur = [CurIdle EXCEPT !.resources = resources, !.values = <<v>>]

NextCursor ==
    \/ CurGetResources
    \/ \E c \in 1..MaxCursorObjects : CurWhere(c, cur.values)
    \/ \E c \in 1..MaxCursorObjects : CurWhereNot(c, cur.values)
    \/ \E c \in 1..MaxCursorObjects : CurNext(c)

SpecCursor == InitCursor /\ [][NextCursor]_vars

InitEvaluate ==
    /\ crawlers = {}
    /\ INCLUDE = NoInclude
    /\ CONTEXTS = <<>>
    /\ state = [u \in Units |-> "initialized"]
    /\ SchedulerIdle
    /\ gci = GciIdle
    /\ pg = PgIdle
    /\ request = NoRequest
    /\ ret = NoReturn
    /\ sv = SvIdle
    /\ q = QIdle
    /\ cur = CurIdle
    /\ lk = LkIdle
    /\ wb = WbIdle
    /\ pw = PwIdle
    /\ \E evaluations \in EvDeclared : ev = [EvIdle EXCEPT !.evaluations = evaluations]

NextEvaluate ==
    \/ \E evaluation \in EvNames, outcome \in EvOutcomes : EvEvaluate(evaluation, outcome)
    \/ EvRunEvaluations
    \/ \E outcome \in EvOutcomes : EvRunStep(outcome)
    \/ \E key \in EvKeys : EvSetAttr(key)
    \/ \E key \in EvKeys : EvDelAttr(key)

SpecEvaluate == InitEvaluate /\ [][NextEvaluate]_vars

(***************************************************************************)
(* The lookups: resources are added to the resource types and looked up by *)
(* id at the three levels.                                                 *)
(***************************************************************************)
InitLookup ==
    /\ crawlers = {}
    /\ INCLUDE = NoInclude
    /\ CONTEXTS = <<>>
    /\ state = [u \in Units |-> "initialized"]
    /\ SchedulerIdle
    /\ gci = GciIdle
    /\ pg = PgIdle
    /\ request = NoRequest
    /\ ret = NoReturn
    /\ sv = SvIdle
    /\ q = QIdle
    /\ cur = CurIdle
    /\ ev = EvIdle
    /\ wb = WbIdle
    /\ pw = PwIdle
    /\ lk = LkIdle

NextLookup ==
    \/ \E t \in {LkTypes[1], LkTypes[2]}, id \in LkIds : LkAddResource(t, id)
    \/ \E t \in {LkTypes[1], LkTypes[2]}, id \in LkIds : LkTypeGetResource(t, id)
    \/ \E id \in LkIds : LkServiceGetResource(id)
    \/ \E id \in LkIds : LkSurveyGetResource(id)

SpecLookup == InitLookup /\ [][NextLookup]_vars

(***************************************************************************)
(* The whiteboard: callers create, read and remove sections, and write,    *)
(* get and erase entries.                                                  *)
(***************************************************************************)
InitWhiteboard ==
    /\ crawlers = {}
    /\ INCLUDE = NoInclude
    /\ CONTEXTS = <<>>
    /\ state = [u \in Units |-> "initialized"]
    /\ SchedulerIdle
    /\ gci = GciIdle
    /\ pg = PgIdle
    /\ request = NoRequest
    /\ ret = NoReturn
    /\ sv = SvIdle
    /\ q = QIdle
    /\ cur = CurIdle
    /\ ev = EvIdle
    /\ lk = LkIdle
    /\ wb = WbIdle
    /\ pw = PwIdle

NextWhiteboard ==
    \/ \E section \in WbSectionArgs : WbNewSection(section)
    \/ \E section \in WbSectionArgs : WbGetSection(section)
    \/ \E section \in WbSectionArgs : WbRemoveSection(section)
    \/ \E section \in WbSectionArgs, title \in WbTitleArgs, w \in WbWrites,
          overwrite \in BOOLEAN :
          WbWrite(section, title, w[1], w[2], overwrite)
    \/ \E section \in WbSectionArgs, title \in WbTitleArgs,
          signature \in WbSignatures : WbGet(section, title, signature)
    \/ \E section \in WbSectionArgs, title \in WbTitleArgs,
          signature \in WbSignatures : WbErase(section, title, signature)

SpecWhiteboard == InitWhiteboard /\ [][NextWhiteboard]_vars

\* the calls above and the scribbles
NextScribble ==
    \/ \E section \in WbSectionArgs : WbNewSection(section)
    \/ \E section \in WbSectionArgs : WbGetSection(section)
    \/ \E section \in WbSectionArgs : WbRemoveSection(section)
    \/ \E section \in WbSectionArgs, title \in WbTitleArgs, w \in WbWrites,
          overwrite \in BOOLEAN :
          WbWrite(section, title, w[1], w[2], overwrite)
    \/ \E section \in WbSectionArgs, title \in WbTitleArgs,
          signature \in WbSignatures : WbGet(section, title, signature)
    \/ \E section \in WbSectionArgs, title \in WbTitleArgs,
          signature \in WbSignatures : WbErase(section, title, signature)
    \/ \E title \in WbTitleArgs, w \in WbWrites : WbScribble(title, w[1])
    \/ \E title \in WbTitleArgs : WbGetScribble(title)

SpecScribble == InitWhiteboard /\ [][NextScribble]_vars

(***************************************************************************)
(* The legacy pagination: one generator of a PaginateWrapper is drawn to   *)
(* its end; the operation returns any page at every call.                  *)
(***************************************************************************)
InitWrapper ==
    /\ crawlers = {}
    /\ INCLUDE = NoInclude
    /\ CONTEXTS = <<>>
    /\ state = [u \in Units |-> "initialized"]
    /\ SchedulerIdle
    /\ gci = GciIdle
    /\ pg = PgIdle
    /\ request = NoRequest
    /\ ret = NoReturn
    /\ sv = SvIdle
    /\ q = QIdle
    /\ cur = CurIdle
    /\ ev = EvIdle
    /\ lk = LkIdle
    /\ wb = WbIdle
    /\ \E page_marker \in PageMarkers : pw = [PwIdle EXCEPT !.page_marker = page_marker]

NextWrapper ==
    \/ \E page \in WrapperPages : PwStart(page)
    \/ \E page \in WrapperPages : PwResume(page)

SpecWrapper == InitWrapper /\ [][NextWrapper]_vars

(***************************************************************************)
(* Properties of the scheduler (GenericCrawler.scan, async_scan).          *)
(***************************************************************************)
\* a step of the async_scan coroutine x that calls scan (the loop is not exhausted)
CallsScan(x) ==
    /\ call[x].pc \in {"ready", "sleeping"}
    /\ call[x].tries < ScanAttempts
    /\ call'[x] # call[x]

\* C1: among any number of concurrent callers of scan on one unit at most
\* one performs initialized -> active, _scan_context is started at most once
\* for every (unit, context), and a caller that finds the unit complete
\* returns at once and changes neither the unit's state nor the result store.
C1_SingleWinner ==
    /\ [](\A u \in Units : activated[u] <= 1)
    /\ [](\A x \in Units \X CtxIds : fetched[x] <= 1)
    /\ [][\A x \in DOMAIN call :
            (CallsScan(x) /\ state[x[2]] = "complete")
                => /\ call'[x].pc = "returned"
                   /\ state' = state
                   /\ scan_results' = scan_results
                   /\ task' = task]_vars

\* a unit that two callers asked for was activated and fetched once; the
\* second caller found it complete and returned
C1_Witness ==
    \E x, y \in DOMAIN call :
        /\ x # y /\ x[2] = y[2]
        /\ call[x].pc = "returned" /\ call[y].pc = "returned"
        /\ activated[x[2]] = 1
        /\ \E c \in CtxIds : fetched[<<x[2], c>>] = 1

StateRank(st) ==
    CASE st = "initialized" -> 0
      [] st = "active" -> 1
      [] st = "complete" -> 2

\* C2: a unit's state only moves forward along initialized -> active ->
\* complete: it never leaves complete and never goes from active back to
\* initialized, whatever requests, successes and failures occur.
C2_StateMonotone ==
    [][\A u \in Units :
          /\ StateRank(state[u]) <= StateRank(state'[u])
          /\ state[u] = "complete" => state'[u] = "complete"
          /\ state[u] = "active" => state'[u] # "initialized"]_vars

\* the scan of a unit failed and the exception left scan: the unit is still active
C2_Witness ==
    \E x \in DOMAIN call :
        /\ call[x].pc = "raised"
        /\ call[x].err = "FailedCrawlerScanError"
        /\ \E c \in CtxIds : TaskOf(x[2], c).pc = "raised"
        /\ state[x[2]] = "active"

\* C3: a caller of async_scan that observes the unit active starts no
\* fetch; it sleeps 2 seconds and tries again, makes at most 60 attempts,
\* and raises TimeOutCrawlerScanError when the 60th attempt also found the
\* unit active.
C3_BoundedWait ==
    /\ [](\A x \in DOMAIN call :
            /\ call[x].tries <= ScanAttempts
            /\ call[x].waited = SleepSeconds * call[x].tries)
    /\ [][\A x \in DOMAIN call :
            /\ (CallsScan(x) /\ state[x[2]] = "active")
                 => /\ call'[x].pc = "sleeping"
                    /\ call'[x].tries = call[x].tries + 1
                    /\ activated' = activated /\ fetched' = fetched
                    /\ task' = task /\ state' = state
            /\ (call[x].pc = "sleeping" /\ call[x].tries = ScanAttempts
                  /\ call'[x] # call[x])
                 => /\ call'[x].pc = "raised"
                    /\ call'[x].err = "TimeOutCrawlerScanError"
            /\ (call[x].pc \in {"ready", "sleeping"} /\ call'[x].pc = "raised")
                 => /\ call[x].tries = ScanAttempts
                    /\ call'[x].err = "TimeOutCrawlerScanError"]_vars

\* a caller gave up after 60 attempts and 120 seconds of sleep
C3_Witness ==
    \E x \in DOMAIN call :
        /\ call[x].pc = "raised"
        /\ call[x].err = "TimeOutCrawlerScanError"
        /\ call[x].tries = 60 /\ call[x].waited = 120
        /\ state[x[2]] = "active"

\* C4: async_scan returns normally only when the unit is complete at the
\* moment of return; a wait that timed out and a fetch that failed leave
\* async_scan as an exception, never as a normal return.
C4_ReturnMeansComplete ==
    /\ [](\A x \in DOMAIN call :
            /\ call[x].pc = "returned" => state[x[2]] = "complete"
            /\ call[x].pc = "raised" <=> call[x].err # "none")
    /\ [][\A x \in DOMAIN call :
            /\ (call[x].pc # "returned" /\ call'[x].pc = "returned")
                 => state'[x[2]] = "complete"
            /\ (call[x].pc = "sleeping" /\ call[x].tries = ScanAttempts)
                 => call'[x].pc # "returned"
            /\ (call[x].pc = "scanning"
                  /\ \E c \in ScanContexts(x[2], CONTEXTS) : TaskOf(x[2], c).pc = "raised")
                 => call'[x].pc # "returned"
            /\ call[x].pc = "raised" => call'[x] = call[x]]_vars

\* one caller returned from a unit that another caller timed out on
C4_Witness ==
    \E x, y \in DOMAIN call :
        /\ x[2] = y[2]
        /\ call[x].pc = "returned"
        /\ call[y].pc = "raised" /\ call[y].err = "TimeOutCrawlerScanError"

\* paginate of the _scan_context x reads the results of its required units
ReadsRequired(x) ==
    /\ task[x].pc = "deps"
    /\ task'[x] # task[x]
    /\ \A d \in Units : CallOf(x, d).pc # "raised"

RequiredComplete(u) ==
    \A d \in get_crawlers(PaginatorInclude(u), {}) : state[d] = "complete"

\* C5 as stated: whenever a custom paginator of U reads the stored results
\* of a unit D of its INCLUDE, D is complete; hence U is never complete
\* before every unit it requires is complete.
C5_RequiresFirst ==
    /\ [][\A x \in DOMAIN task : ReadsRequired(x) => RequiredComplete(x[1])]_vars
    /\ [](\A u \in Units : state[u] = "complete" => RequiredComplete(u))

\* C5, amended: whenever a custom paginator of U reads the stored results
\* of a unit D of its INCLUDE, D is complete; hence a unit U that was
\* fetched in at least one context is never complete before every unit it
\* requires is complete.
C5_RequiresFirstWhenFetched ==
    /\ [][\A x \in DOMAIN task : ReadsRequired(x) => RequiredComplete(x[1])]_vars
    /\ [](\A u \in Units :
            (state[u] = "complete" /\ \E c \in CtxIds : fetched[<<u, c>>] > 0)
                => RequiredComplete(u))

\* kms.key read the identifiers of kms.key_id and is complete
C5_Witness ==
    /\ state["kms.key"] = "complete"
    /\ state["kms.key_id"] = "complete"
    /\ \E c \in CtxIds : fetched[<<"kms.key", c>>] = 1 /\ TaskOf("kms.key", c).pc = "done"
    /\ scan_results["kms.key_id"].items # {}

\* the contexts whose service is the unit's serviceType, and those it was
\* fetched against
Matching(u) == {c \in DOMAIN CONTEXTS : CONTEXTS[c].service = serviceType(u)}

FetchedIn(u) == {c \in DOMAIN CONTEXTS : fetched[<<u, c>>] > 0}

\* C8: a complete global unit was fetched against exactly one matching
\* context per account, a complete non-global unit exactly once against
\* every matching context.
C8_Applicability ==
    \A u \in Units :
        state[u] = "complete" =>
            /\ \A c \in FetchedIn(u) : c \in Matching(u) /\ fetched[<<u, c>>] = 1
            /\ IF globalService(u)
               THEN \A a \in {CONTEXTS[c].account_id : c \in Matching(u)} :
                       Cardinality({c \in FetchedIn(u) : CONTEXTS[c].account_id = a}) = 1
               ELSE FetchedIn(u) = Matching(u)

NonRetryable == {"ParamValidationError", "ClientError", "MetadataClassNotFoundError"}

StoredIds(results, u) == {i[1] : i \in results[u].items}

\* C9: a non-rate-limit error of a fetch (ParamValidationError, a
\* ClientError other than Throttling, a missing metadata class) is not
\* retried: the attempt that met it raises FailedCrawlerScanError, which
\* leaves async_scan and deploy_crawlers as that one error, the request
\* never returns normally, and nothing already stored is removed.
C9_FailFast ==
    /\ [][\A x \in DOMAIN task :
            (task[x].pc = "paginate" /\ task'[x].cause \in NonRetryable)
                => /\ task'[x].pc = "raised"
                   /\ task'[x].err = "FailedCrawlerScanError"
                   /\ task'[x].attempt = 0
                   /\ \A v \in Units \ {x[1]} : scan_results'[v] = scan_results[v]]_vars
    /\ [](\A x \in DOMAIN task :
            task[x].cause \in NonRetryable
                => task[x].pc = "raised" /\ task[x].err = "FailedCrawlerScanError")
    /\ [](\A x \in DOMAIN call :
            call[x].cause \in NonRetryable
                => call[x].pc = "raised" /\ call[x].err = "FailedCrawlerScanError")
    /\ [](deploy.cause \in NonRetryable
            => deploy.pc = "raised" /\ deploy.err = "FailedCrawlerScanError")
    /\ []((\E x \in DOMAIN task : task[x].cause \in NonRetryable)
            => deploy.pc # "returned")
    /\ [][\A u \in Units :
            /\ scan_results[u].present => scan_results'[u].present
            /\ StoredIds(scan_results, u) \subseteq StoredIds(scan_results', u)]_vars

\* the request was aborted by a ClientError of kms.key while the instances
\* of kms.key_id are still in the result store
C9_Witness ==
    /\ deploy.pc = "raised"
    /\ deploy.err = "FailedCrawlerScanError"
    /\ deploy.cause = "ClientError"
    /\ \E c \in CtxIds : TaskOf("kms.key", c).cause = "ClientError"
    /\ scan_results["kms.key_id"].items # {}

(***************************************************************************)
(* Properties of the dependency closure (get_crawler_includes).            *)
(***************************************************************************)
\* the not-yet-scanned units that the INCLUDE lists of the members of S name
Required(S) ==
    {c \in UNION {get_crawlers(INCLUDE[m], {}) : m \in S} : state[c] = "initialized"}

\* C6: for every requested set R the deployed set closure(R) = R \cup
\* get_crawler_includes(R) is a superset of R, contains every not-yet-scanned
\* unit named in the INCLUDE of any of its members, and is idempotent.
C6_Closure ==
    gci.pc # "idle" =>
        LET R == gci.arg
            closure == Deployed(R, state, INCLUDE)
        IN  /\ R \subseteq closure
            /\ R # {} => Required(closure) \subseteq closure
            /\ Deployed(closure, state, INCLUDE) = closure
            /\ gci.pc = "done" =>
                 /\ gci.arg \cup gci.result = closure
                 /\ gci.round = 2 => gci.result = {} /\ closure = gci.prev

\* a closure that is larger than the request was computed and computed again
C6_Witness ==
    /\ gci.pc = "done"
    /\ gci.round = 2
    /\ Cardinality(gci.prev) >= 3
    /\ \E R \in SUBSET Units : Cardinality(R) = 1 /\ Deployed(R, state, INCLUDE) = gci.prev

\* C7: get_crawler_includes terminates for every finite INCLUDE graph, with
\* cycles and self-references: the accumulated set is passed as skip, no unit
\* of it is expanded again, and every recursive call strictly enlarges it.
C7_Terminates ==
    /\ [](gci.pc = "call" =>
            /\ IncludeCrawlers(gci.acc, state, INCLUDE) \cap gci.acc = {}
            /\ gci.depth <= Cardinality(Units) + 1)
    /\ [][(gci.pc = "call" /\ gci'.pc = "call" /\ gci'.round = gci.round)
            => /\ gci.acc \subseteq gci'.acc
               /\ gci.acc # gci'.acc]_vars
    /\ (gci.pc = "call") ~> (gci.pc = "done")

\* the recursion ended on an INCLUDE graph with a cycle through two units
C7_Witness ==
    /\ gci.pc = "done"
    /\ gci.depth >= 2
    /\ \E u, v \in gci.acc : u # v /\ u \in INCLUDE[v] /\ v \in INCLUDE[u]

(***************************************************************************)
(* Properties of async_paginate.                                           *)
(***************************************************************************)
\* the step that ends an attempt of async_paginate
AttemptEnds ==
    /\ pg.pc = "resolving"
    /\ pg'.pc # "resolving" \/ pg'.attempt # pg.attempt

\* the attempt is made again: every identifier is issued once more
WholeAttemptRetried ==
    /\ pg'.pc = "resolving"
    /\ pg'.attempt = pg.attempt + 1
    /\ DOMAIN pg'.items = PaginatorKeys(pg.id_key, pg.id_values)
    /\ \A k \in DOMAIN pg'.items :
          pg'.items[k] = "running" /\ pg'.issued[k] = pg.issued[k] + 1

\* FailedCrawlerScanError whose message names the context and the operation
RaisedMaxRetries ==
    /\ pg'.pc = "raised"
    /\ pg'.err = "FailedCrawlerScanError"
    /\ pg'.message[1] = pg.context
    /\ pg'.message[3] = pg.function

AtMostFourAttempts ==
    /\ pg.attempt + 1 <= PaginateAttempts
    /\ \A k \in DOMAIN pg.issued : pg.issued[k] <= PaginateAttempts

\* C10 as stated: async_paginate makes at most 4 attempts; an attempt in
\* which any item raises Throttling is followed by a retry of the whole
\* attempt, and a throttled 4th attempt by FailedCrawlerScanError naming
\* the paginator's context and operation.
C10_RetryWhenAnyThrottled ==
    /\ []AtMostFourAttempts
    /\ [][(AttemptEnds /\ \E k \in DOMAIN pg.items : pg.items[k] = "Throttling")
            => IF pg.attempt + 1 < PaginateAttempts
               THEN WholeAttemptRetried
               ELSE RaisedMaxRetries]_vars

\* C10, amended: async_paginate makes at most 4 attempts; an attempt whose
\* first raised error (the one gather propagates) is Throttling is followed
\* by a retry of the whole attempt, every identifier issued again, and a 4th
\* attempt throttled that way by FailedCrawlerScanError naming the
\* paginator's context and operation.
C10_RetryWhenThrottledFirst ==
    /\ []AtMostFourAttempts
    /\ [][(AttemptEnds /\ pg.first = "Throttling")
            => IF pg.attempt + 1 < PaginateAttempts
               THEN WholeAttemptRetried
               ELSE RaisedMaxRetries]_vars

\* two identifiers were issued four times each and the fourth attempt was
\* throttled as well
C10_Witness ==
    /\ pg.pc = "raised"
    /\ pg.err = "FailedCrawlerScanError"
    /\ pg.first = "Throttling"
    /\ DOMAIN pg.issued = IdPool
    /\ \A k \in IdPool : pg.issued[k] = PaginateAttempts

\* C11: when the attempts before attempt k (k <= 4) are rate-limited and
\* attempt k succeeds, exactly k attempts are made and the pages returned
\* are the pages of attempt k, one list per identifier: nothing resolved
\* during a throttled attempt is returned.
C11_PagesOfLastAttempt ==
    /\ [](pg.pc = "returned" =>
            LET order == PaginatorOrder(pg.id_key, pg.id_values)
            IN  /\ \A k \in DOMAIN pg.issued : pg.issued[k] = pg.attempt + 1
                /\ Len(pg.pages) = Len(order)
                /\ \A i \in DOMAIN pg.pages :
                      /\ pg.pages[i] = [key |-> order[i], attempt |-> pg.attempt]
                      /\ pg.pages[i] \notin pg.discarded
                /\ \A d \in pg.discarded : d.attempt < pg.attempt)
    /\ [][(AttemptEnds /\ pg'.pc = "returned")
            => /\ pg.first = "none"
               /\ pg'.attempt = pg.attempt
               /\ {pg'.pages[i] : i \in DOMAIN pg'.pages} = Resolved(pg.items, pg.attempt)]_vars

\* the third attempt succeeded after two throttled attempts in which one
\* of two identifiers had resolved
C11_Witness ==
    /\ pg.pc = "returned"
    /\ pg.attempt = 2
    /\ Len(pg.pages) = 2
    /\ Cardinality(pg.discarded) = 2

(***************************************************************************)
(* Properties of a whole scan request.                                     *)
(***************************************************************************)
\* C12: when no remote fetch raises an error and no waiter exhausts its 60
\* attempts, deploy_crawlers eventually returns, and when it has returned
\* every unit of the request and of its closure is complete and was
\* scanned once.
C12_DeployReturns ==
    /\ <>(\/ deploy.pc = "returned"
          \/ \E x \in DOMAIN call : call[x].err = "TimeOutCrawlerScanError")
    /\ [](deploy.pc = "returned" =>
            \A u \in Deployed(crawlers, [v \in Units |-> "initialized"], INCLUDE) :
                state[u] = "complete" /\ activated[u] = 1)

\* C14: Crawler.scan returns exactly the requested resource types: every
\* requested type is in the returned collection with the instances of the
\* store, and a type that was fetched only as a dependency, or that the
\* skip list names, is absent although the store holds its instances.
C14_ReturnsRequestedOnly ==
    ret.present =>
        /\ DOMAIN ret.collection = get_crawlers(request.services, request.skip)
        /\ \A u \in DOMAIN ret.collection : ret.collection[u] = scan_results[u].items
        /\ \A u \in Units :
              (u \in get_crawlers(request.skip, {})
                 \/ u \notin get_crawlers(request.services, {}))
                  => u \notin DOMAIN ret.collection

\* route53 was requested without route53.hosted_zone: its instances were
\* fetched for route53.record_set and are not returned
C14_Witness ==
    /\ ret.present
    /\ request.skip = {"route53.hosted_zone"}
    /\ scan_results["route53.hosted_zone"].items # {}
    /\ DOMAIN ret.collection = {"route53.record_set"}
    /\ ret.collection["route53.record_set"] # {}

(***************************************************************************)
(* Properties of the Survey (Freezable, FrozenDict).                       *)
(***************************************************************************)
SvWrites == {"_add", "setattr", "delattr", "setitem", "delitem", "update", "pop"}

\* C13: once the Survey is frozen every write attempt on the Survey, a
\* service, a resource type or a frozen bucket (setting or deleting an
\* attribute or entry, adding a service, resource type or resource) raises
\* FrozenInstanceError, and reading an entry that was populated at the
\* freeze gives what it gave at the freeze.
C13_FrozenWritesRaise ==
    /\ (sv.last.op \in SvWrites /\ sv.last.frozen)
           => sv.last.raised = "FrozenInstanceError"
    /\ sv.obj[<<>>].frozen =>
           \A n \in SvNodes : \A c \in sv.snap[n].attrs :
               SvExists(sv.snap, n) => SvGet(sv.obj, n, c) = SvGet(sv.snap, n, c)
    /\ sv.bucket.made =>
           \A key \in sv.bucket.data :
               FrozenDict_getitem(sv.bucket.entries, key)
                   = FrozenDict_getitem(sv.bucket.data, key)

(***************************************************************************)
(* Properties of SurveySearch.                                             *)
(***************************************************************************)
\* the path of the query resolves on every instance of the cursor
PathResolves ==
    \A k \in 1..Len(q.iter) : get_obj_attr(q.iter[k], q.attribute).raised = "none"

\* at least one value resolved at the path satisfies the operator
Satisfies(i) ==
    LET vs == get_obj_attr(i, q.attribute).values
    IN  \E k \in 1..Len(vs) : Check(q.condition, vs[k], q.values) = "True"

NotSatisfies(i) == ~Satisfies(i)

Elements(s) == {s[k] : k \in 1..Len(s)}

\* C15: for a path that resolves on every instance and one of the eight
\* operators, where yields exactly the instances with at least one resolved
\* value satisfying the operator and where_not exactly the instances with
\* none; the two results are disjoint and together hold every instance of
\* the source.
C15_WherePartition ==
    (q.yes.done /\ q.no.done /\ q.condition \in Checks /\ PathResolves) =>
        /\ q.yes.raised = "none"
        /\ q.no.raised = "none"
        /\ q.yes.items = SelectSeq(q.iter, Satisfies)
        /\ q.no.items = SelectSeq(q.iter, NotSatisfies)
        /\ Elements(q.yes.items) \cap Elements(q.no.items) = {}
        /\ Elements(q.yes.items) \cup Elements(q.no.items) = Elements(q.iter)

\* C19: where and where_not never raise for a type-mismatched comparison,
\* for any of the eight operators: the operator evaluates to false for the
\* mismatching element and the iteration of the cursor goes on.
C19_NoRaiseOnMismatch ==
    /\ q.checked.done => q.checked.result \in {"True", "False"}
    /\ (q.yes.done /\ q.condition \in Checks /\ PathResolves) => q.yes.raised = "none"
    /\ (q.no.done /\ q.condition \in Checks /\ PathResolves) => q.no.raised = "none"

\* the comparison of one operator between a value and one candidate
Compare(condition, val, match) ==
    CASE condition = "eq" -> PyBool(val = match)
      [] condition = "ne" -> PyBool(val # match)
      [] condition = "gt" -> PyGt(val, match)
      [] condition = "lt" -> PyLt(val, match)
      [] condition = "contains" -> PyIn(match, val)
      [] condition = "not_contains" -> PyNotIn(match, val)
      [] condition = "startswith" -> PyStartswith(val, match)
      [] OTHER -> PyEndswith(val, match)

\* C20: each of the eight operators returns true if and only if at least
\* one candidate satisfies the operator's comparison with the value, and
\* false for an empty candidate list.
C20_AnyCandidate ==
    q.checked.done =>
        /\ q.checked.result =
               PyBool(\E k \in 1..Len(q.values) :
                          Compare(q.condition, q.checked.val, q.values[k]) = "True")
        /\ q.values = <<>> => q.checked.result = "False"

\* C16: where(path, 'eq', [v]).where_not(path, 'eq', [v]) over one
\* starting cursor yields nothing, for every path that resolves, every
\* value v and every list of instances.
C16_ChainIsEmpty ==
    (q.chain.done /\ q.condition = "eq" /\ Len(q.values) = 1 /\ PathResolves) =>
        /\ q.chain.raised = "none"
        /\ q.chain.items = <<>>

\* a chained eq query whose where keeps an instance
C16_Witness ==
    /\ q.chain.done /\ q.condition = "eq" /\ Len(q.values) = 1 /\ PathResolves
    /\ \E k \in 1..Len(q.iter) : Satisfies(q.iter[k])
    /\ q.chain.items = <<>>

\* the tags of an instance
TagsOf(o) == o.f.tags.l

\* the paths of the queries that do not resolve on the instance o: a missing
\* attribute, an index or '*' on a value that is no ordered collection, an
\* index out of range
Fails(o, path) ==
    CASE path = <<"name">> -> TRUE
      [] path = <<"tags", "*", "name">> -> Len(TagsOf(o)) > 0
      [] path = <<"id", "0">> -> TRUE
      [] path = <<"size", "*">> -> TRUE
      [] path = <<"tags", "1">> -> Len(TagsOf(o)) < 2
      [] path = <<"tags", "0", "key">> -> Len(TagsOf(o)) < 1
      [] OTHER -> FALSE

\* the values reached by a path that resolves on the instance o
Reached(o, path) ==
    CASE path = <<"tags", "*">> -> TagsOf(o)
      [] path = <<"tags", "*", "key">> ->
            [k \in 1..Len(TagsOf(o)) |-> TagsOf(o)[k].f.key]
      [] path = <<"tags", "*", "name">> -> <<>>
      [] path = <<"tags", "0", "key">> -> <<TagsOf(o)[1].f.key>>
      [] path = <<"tags", "1">> -> <<TagsOf(o)[2]>>
      [] OTHER -> <<o.f[path[1]]>>

\* C17: _get_obj_attr returns the list of the values reached by the dotted
\* path: a name selects a field, a number that index of an ordered
\* collection, '*' every element of an ordered collection with the results
\* flattened in element order; "tags.*.key" over the tags (a, ..), (b, ..)
\* returns [a, b].
C17_PathResolution ==
    q.resolved.done =>
        /\ ~Fails(q.resolved.o, q.attribute) =>
               /\ q.resolved.raised = "none"
               /\ q.resolved.values = Reached(q.resolved.o, q.attribute)
        /\ (/\ q.attribute = <<"tags", "*", "key">>
            /\ Len(TagsOf(q.resolved.o)) = 2
            /\ TagsOf(q.resolved.o)[1].f.key = PyStr(<<"a">>)
            /\ TagsOf(q.resolved.o)[2].f.key = PyStr(<<"b">>))
               => q.resolved.values = <<PyStr(<<"a">>), PyStr(<<"b">>)>>

\* "tags.*.key" resolved on the instance with the tags a and b
C17_Witness ==
    /\ q.resolved.done
    /\ q.attribute = <<"tags", "*", "key">>
    /\ q.resolved.raised = "none"
    /\ q.resolved.values = <<PyStr(<<"a">>), PyStr(<<"b">>)>>

\* C18: every failure of the path resolution (a missing attribute, an
\* index or '*' on a value that is no ordered collection, an index out of
\* range) raises SurveySearchQueryError and nothing else, and a condition
\* outside the eight supported ones raises SurveySearchQueryError at the
\* call of where / where_not.
C18_SearchQueryError ==
    /\ q.resolved.done =>
           /\ Fails(q.resolved.o, q.attribute)
                  => q.resolved.raised = "SurveySearchQueryError"
           /\ q.resolved.raised \in {"none", "SurveySearchQueryError"}
    /\ \A r \in {q.yes, q.no, q.chain} :
           r.done =>
               /\ q.condition \notin Checks
                      => r.raised = "SurveySearchQueryError" /\ r.at = "call"
               /\ (/\ q.condition \in Checks
                   /\ Len(q.iter) > 0
                   /\ Fails(q.iter[1], q.attribute))
                      => r.raised = "SurveySearchQueryError" /\ r.at = "next"

\* an index out of range raised SurveySearchQueryError, or where was called
\* with an unknown condition
C18_Witness ==
    \/ /\ q.resolved.done
       /\ q.attribute = <<"tags", "1">>
       /\ Len(TagsOf(q.resolved.o)) < 2
       /\ q.resolved.raised = "SurveySearchQueryError"
    \/ /\ q.yes.done
       /\ q.condition \notin Checks
       /\ q.yes.at = "call"

(***************************************************************************)
(* Properties of the cursors.                                              *)
(***************************************************************************)
CurStep(ops) == cur' # cur /\ cur'.last.op \in ops

\* C21: where and where_not return a new cursor and draw no element from
\* the cursor they are called on and resolve no path; elements are drawn
\* only while a cursor is iterated, and only from its own source; calling
\* get_resources again gives a cursor that starts at the first instance
\* however far the earlier cursors were consumed.
C21_LazyCursors ==
    /\ [][CurStep({"where", "where_not"}) =>
            /\ cur'.iters = cur.iters
            /\ cur'.resolutions = cur.resolutions
            /\ Len(cur'.cursors) = Len(cur.cursors) + 1
            /\ SubSeq(cur'.cursors, 1, Len(cur.cursors)) = cur.cursors]_vars
    /\ [][CurStep({"next"}) =>
            /\ cur'.cursors = cur.cursors
            /\ \A b \in 1..Len(cur.iters) :
                   b # cur.cursors[cur'.last.cursor].base => cur'.iters[b] = cur.iters[b]]_vars
    /\ [][CurStep({"get_resources"}) =>
            /\ cur'.resolutions = cur.resolutions
            /\ SubSeq(cur'.iters, 1, Len(cur.iters)) = cur.iters
            /\ cur'.iters[Len(cur'.iters)] = 0
            /\ cur'.cursors[Len(cur'.cursors)] =
                   [base |-> Len(cur'.iters), filters |-> <<>>]]_vars
    /\ [](\A c \in 1..Len(cur.cursors) :
            (/\ cur.last.op = "next" /\ cur.last.cursor = c
             /\ cur.cursors[c].filters = <<>> /\ ~cur.last.stop)
                => cur.last.yielded = <<cur.resources[cur.iters[cur.cursors[c].base]]>>)

\* where called on a cursor whose source is partly consumed by a filtered
\* cursor
C21_Witness ==
    /\ cur.last.op = "where"
    /\ Len(cur.resources) = 2
    /\ cur.iters[1] = 1
    /\ cur.resolutions > 0

(***************************************************************************)
(* Properties of the evaluations.                                          *)
(***************************************************************************)
EvDeclares(evaluation) ==
    \E k \in 1..Len(ev.evaluations) : ev.evaluations[k] = evaluation

EvEntries(results, evaluation) ==
    {k \in 1..Len(results) : results[k].name = evaluation}

\* the last step was a call of evaluate (by a caller or by run_evaluations)
EvCalled == ev.last.name # ""

\* C22: for every check name, any sequence of evaluate calls (those of
\* run_evaluations included) executes the check function exactly once,
\* every call returns the same status, and the results hold at most one
\* entry per check name.
C22_ExactlyOnce ==
    /\ [](\A n \in EvChecks :
            (EvDeclares(n) /\ ev.called[n] > 0) => ev.runs[n] = 1)
    /\ [](\A n \in EvChecks : Cardinality(EvEntries(ev.results, n)) <= 1)
    /\ []((EvCalled /\ ev.last.returned # "none") =>
            \A k \in EvEntries(ev.results, ev.last.name) :
                ev.results[k].status = ev.last.returned)
    /\ [][\A k \in 1..Len(ev.results) : ev'.results[k] = ev.results[k]]_vars

\* C22 as the code has it: a check that has returned a Result is recorded
\* and never executed again, every later call returns the recorded status,
\* and the results hold at most one entry per name; a call whose check
\* returns no Result records nothing, so the check is executed once per
\* such call and once more for the call that records it.
C22_ExactlyOnceWhenRecorded ==
    /\ [](\A n \in EvChecks :
            EvDeclares(n) =>
                ev.runs[n] = ev.failed[n] + Cardinality(EvEntries(ev.results, n)))
    /\ [](\A n \in EvChecks : Cardinality(EvEntries(ev.results, n)) <= 1)
    /\ []((EvCalled /\ ev.last.returned # "none") =>
            \A k \in EvEntries(ev.results, ev.last.name) :
                ev.results[k].status = ev.last.returned)
    /\ [][\A k \in 1..Len(ev.results) : ev'.results[k] = ev.results[k]]_vars
    /\ [][\A n \in EvChecks :
            EvEntries(ev.results, n) # {} => ev'.runs[n] = ev.runs[n]]_vars

\* a recorded check was asked for again and was executed once
C22_Witness ==
    \E n \in EvChecks :
        /\ ev.called[n] >= 3
        /\ ev.runs[n] = 1
        /\ ev.failed[n] = 0
        /\ EvCalled /\ ev.last.name = n /\ ev.last.outcome = "none"
        /\ ev.last.returned = "False"

\* C23: passed is at all times the logical AND of the statuses of the
\* results recorded so far, and true when nothing is recorded.
C23_PassedIsAnd ==
    /\ passed(ev.results) = (\A k \in 1..Len(ev.results) : ev.results[k].status = "True")
    /\ ev.results = <<>> => passed(ev.results)

\* a passing and a failing result are recorded
C23_Witness ==
    /\ Len(ev.results) = 2
    /\ ev.results[1].status = "True"
    /\ ev.results[2].status = "False"
    /\ ~passed(ev.results)

\* C24: evaluate with a name that is not in evaluations raises
\* EvaluationMethodNotFoundError, also when the name is another attribute
\* or a data field of the instance, runs no function and records nothing.
C24_UndeclaredNotFound ==
    [][(ev'.calls > ev.calls /\ ~EvDeclares(ev'.last.name)) =>
          /\ ev'.last.raised = "EvaluationMethodNotFoundError"
          /\ ev'.runs = ev.runs
          /\ ev'.results = ev.results]_vars

\* C25: a check that returns something that is no Result makes evaluate
\* raise EvaluationMethodResultOutputError and nothing is appended: the
\* results and passed are what they were before the call.
C25_WrongShape ==
    (EvCalled /\ EvDeclares(ev.last.name) /\ ev.last.outcome = "NotResult") =>
        /\ ev.last.raised = "EvaluationMethodResultOutputError"
        /\ ev.results = ev.last.before
        /\ passed(ev.results) = passed(ev.last.before)

\* a check returned no Result on an instance with a failing result
C25_Witness ==
    /\ EvCalled /\ EvDeclares(ev.last.name) /\ ev.last.outcome = "NotResult"
    /\ ev.last.raised = "EvaluationMethodResultOutputError"
    /\ ev.results # <<>>
    /\ ~passed(ev.results)

(***************************************************************************)
(* Properties of the lookups.                                              *)
(***************************************************************************)
\* the resource types a lookup of the last call searches
LkSearched ==
    IF lk.last.op = "SurveyResourceType.get_resource"
    THEN {lk.last.type} ELSE {LkTypes[1], LkTypes[2]}

LkLookedUp ==
    lk.last.op \in {"SurveyResourceType.get_resource",
                    "SurveyService.get_resource", "Survey.get_resource"}

\* C26: at every level, get_resource(id) returns the resource whose id is
\* the requested id when a resource was added under that id (ids with
\* punctuation and ids that differ only in punctuation included), and
\* raises SurveyAttributeError for an id that was never added.
C26_LookupRoundTrips ==
    LkLookedUp =>
        IF \E t \in LkSearched : lk.last.id \in lk.resources[t]
        THEN /\ lk.last.raised = "none"
             /\ lk.last.returned.id = lk.last.id
             /\ lk.last.returned.type \in LkSearched
        ELSE lk.last.raised = "SurveyAttributeError"

(***************************************************************************)
(* Properties of the whiteboard.                                           *)
(***************************************************************************)
\* the entry matches the parameters a caller provided ('' is not provided)
WbMatches(item, title, signature) ==
    /\ title = "" \/ item.title = title
    /\ signature = "" \/ item.signature = signature

\* the other sections are what they were
WbOthersSame(before, after, section) ==
    /\ after.sections \ {section} = before.sections \ {section}
    /\ \A x \in WbSections \ {section} : after.data[x] = before.data[x]

\* C27: new_section on an existing section leaves its entries unchanged,
\* write on an existing title without overwrite leaves the entry unchanged,
\* write with overwrite replaces exactly that entry with the message and
\* the signature, and write on a missing section creates the section first.
C27_NoImplicitOverwrite ==
    [][LET l == wb'.last
           before == wb.board
           after == wb'.board
       IN  /\ (l.op = "new_section" /\ l.section \in before.sections) =>
                  after = before
           /\ (l.op = "write" /\ l.title # "" /\ l.section # "") =>
                  /\ l.section \in after.sections
                  /\ WbOthersSame(before, after, l.section)
                  /\ IF HasTitle(before.data[l.section], l.title) /\ ~l.overwrite
                     THEN after.data = before.data
                     ELSE /\ after.data[l.section] =
                                 SetItem(before.data[l.section], l.title,
                                         l.msg, l.signature)
                          /\ EntryDict(EntryOf(after.data[l.section], l.title)) =
                                 [message |-> l.msg, signature |-> l.signature]
                          /\ \A t \in WbTitles \ {l.title} :
                                 /\ HasTitle(after.data[l.section], t) =
                                        HasTitle(before.data[l.section], t)
                                 /\ HasTitle(after.data[l.section], t) =>
                                        EntryOf(after.data[l.section], t) =
                                            EntryOf(before.data[l.section], t)]_vars

\* an entry was overwritten next to another entry of its section
C27_Witness ==
    /\ wb.last.op = "write" /\ wb.last.overwrite /\ wb.last.existed
    /\ wb.last.msg = "m2"
    /\ Len(wb.board.data[wb.last.section]) = 2
    /\ \E k \in 1..2 : wb.board.data[wb.last.section][k].message = "m1"
    /\ EntryOf(wb.board.data[wb.last.section], wb.last.title).message = "m2"

\* C28: get on a section returns all and only the entries that match the
\* provided parameters: the entry with the title, every entry with the
\* signature, with both the entry only when title and signature match;
\* the empty list when nothing matches; and the board is unchanged.
C28_GetMatches ==
    /\ []((/\ wb.last.op = "get"
           /\ wb.last.section \in wb.board.sections
           /\ wb.last.title # "" \/ wb.last.signature # "") =>
             LET Asked(item) == WbMatches(item, wb.last.title, wb.last.signature)
                 matching == SelectSeq(wb.board.data[wb.last.section], Asked)
             IN  /\ wb.last.raised = "none"
                 /\ wb.last.returned =
                        [k \in 1..Len(matching) |-> EntryDict(matching[k])])
    /\ [][wb'.last.op = "get" => wb'.board = wb.board]_vars

C30_MissingTargets ==
    [][LET l == wb'.last
           before == wb.board
       IN  /\ (l.op = "get_section" /\ l.section \notin before.sections) =>
                  l.raised = "WhiteboardGetSectionError" /\ wb'.board = before
           /\ (l.op = "remove_section" /\ l.section \notin before.sections) =>
                  l.raised = "WhiteboardRemoveSectionError" /\ wb'.board = before
           /\ (/\ l.op = "erase"
               /\ l.section \in before.sections
               /\ l.title # ""
               /\ ~HasTitle(before.data[l.section], l.title)) =>
                  l.raised = "WhiteboardEraseError" /\ wb'.board = before
           /\ (l.op = "new_section" /\ l.section = "") =>
                  l.raised = "WhiteboardCreateSectionError" /\ wb'.board = before
           /\ (l.op = "write" /\ l.title = "") =>
                  l.raised = "WhiteboardWriteError" /\ wb'.board = before]_vars

\* a missing title was erased from a section that holds another entry
C30_Witness ==
    /\ wb.last.op = "erase" /\ wb.last.raised = "WhiteboardEraseError"
    /\ wb.last.had /\ ~wb.last.existed
    /\ wb.last.title # ""
    /\ Len(wb.board.data[wb.last.section]) = 1

(***************************************************************************)
(* Properties of the result store, the instances and the evaluations of a  *)
(* scan.                                                                   *)
(***************************************************************************)
\* the _scan_context of unit u and context c ends its fetch in this step
EndsFetch(u, c) ==
    /\ TaskOf(u, c).pc = "paginate"
    /\ task'[<<u, c>>].pc \in {"done", "raised"}

\* C31: every write into the result store puts the instance under its id
\* in the bucket of the scanning unit: a bucket holds one instance per id,
\* the one written last when two contexts return the same id, and a write
\* never removes an id from a bucket.
C31_KeyedLastWrite ==
    [][\A u \in Units :
          LET old == scan_results[u].items
              new == scan_results'[u].items
          IN  /\ \A i, j \in new : i[1] = j[1] => i = j
              /\ \A i \in old : \E j \in new : j[1] = i[1]
              /\ \A c \in CtxIds :
                     EndsFetch(u, c) =>
                         \A id \in task'[<<u, c>>].wrote : <<id, c>> \in new
              /\ \A j \in new \ old :
                     \E c \in CtxIds : /\ EndsFetch(u, c)
                                       /\ j[2] = c
                                       /\ j[1] \in task'[<<u, c>>].wrote]_vars

\* two contexts of a unit wrote the same id and the bucket holds one instance
C31_Witness ==
    \E u \in Units : \E c, d \in CtxIds :
        /\ c # d
        /\ TaskOf(u, c).wrote = {"x"}
        /\ TaskOf(u, d).wrote = {"x"}
        /\ Cardinality(scan_results[u].items) = 1

\* the names of the entries of a results list, in their order
EntryNames(results) == [k \in 1..Len(results) |-> results[k].name]

\* C33: run_evaluations takes the declared checks in declaration order and
\* Crawler.scan runs it on the returned instances only after
\* deploy_crawlers has finished: when scan returns, the results of every
\* returned instance hold one entry per declared check, in declared order.
C33_EvaluatedInOrder ==
    /\ [](ret.present =>
            \A u \in DOMAIN ret.collection : \A i \in ret.collection[u] :
                EntryNames(ret.results[<<u, i>>]) = Distinct(EvaluationsOf(u)))
    /\ [](deploy.pc # "returned" => ret.results = <<>>)
    /\ [][ret'.results # ret.results => deploy.pc = "returned"]_vars

\* scan returned an instance with a passing and a failing check
C33_Witness ==
    /\ ret.present
    /\ "kms.key" \in DOMAIN ret.collection
    /\ \E i \in ret.collection["kms.key"] :
           /\ Len(ret.results[<<"kms.key", i>>]) = 2
           /\ ret.results[<<"kms.key", i>>][1] = [name |-> "check_a", status |-> "True"]
           /\ ret.results[<<"kms.key", i>>][2] = [name |-> "check_b", status |-> "False"]

\* C32: after construction every attribute assignment or deletion on an
\* instance raises FrozenInstanceError and leaves it unchanged; only the
\* results list changes, and only by the append of one entry for a check
\* that was executed.
C32_FrozenInstance ==
    [][/\ ev'.last.op \in {"setattr", "delattr"} =>
              /\ ev'.last.raised = "FrozenInstanceError"
              /\ ev'.results = ev.results
       /\ ev'.attrs = ev.attrs
       /\ ev'.frozen = ev.frozen
       /\ ev'.evaluations = ev.evaluations
       /\ \/ ev'.results = ev.results
          \/ /\ Len(ev'.results) = Len(ev.results) + 1
             /\ SubSeq(ev'.results, 1, Len(ev.results)) = ev.results
             /\ ev'.results[Len(ev'.results)].name = ev'.last.name
             /\ ev'.runs[ev'.last.name] = ev.runs[ev'.last.name] + 1]_vars

\* an assignment to results was refused on an instance with a result
C32_Witness ==
    /\ ev.last.op = "setattr"
    /\ ev.last.key = "results"
    /\ ev.last.raised = "FrozenInstanceError"
    /\ ev.results # <<>>
    /\ ev.last.before = ev.results

\* the page holds the next-marker key, or a true IsTruncated and its marker
PageContinues(page_marker, page) ==
    \/ NextKey(page_marker) \in page.keys
    \/ /\ page.IsTruncated = "True"
       /\ TruncatedKey(page_marker) \in page.keys

\* the page holds neither the next-marker key nor IsTruncated
PageEnds(page_marker, page) ==
    /\ NextKey(page_marker) \notin page.keys
    /\ page.IsTruncated = "absent"

\* C34: the legacy-marker generator yields one page per call; resumed after
\* a page that holds the next-marker key or a true IsTruncated with its
\* marker it calls the operation again and yields the new page, and resumed
\* after a page that holds neither it stops without error
C34_LegacyMarker ==
    /\ pw.yielded = pw.calls
    /\ (pw.calls >= 2 \/ pw.pc \in {"stopped", "KeyError"}) =>
          /\ PageContinues(pw.page_marker, pw.prev) => pw.pc = "yielded"
          /\ PageEnds(pw.page_marker, pw.prev) => pw.pc = "stopped"

\* the number of elements of id_values equal to v
Occurrences(id_values, v) ==
    Cardinality({i \in DOMAIN id_values : id_values[i] = v})

\* C35: with identifiers every attempt of async_paginate issues one
\* paginated call per element of id_values and a successful call returns
\* one page list per element, result[i] for id_values[i]; without
\* identifiers every attempt issues one call and one page list is returned
C35_FanOut ==
    (pg.pc # "idle" /\ ~MissingIdArgument(pg.id_key, pg.id_values)) =>
        IF pg.id_key
        THEN /\ \A i \in DOMAIN pg.id_values :
                    /\ pg.id_values[i] \in DOMAIN pg.issued
                    /\ pg.issued[pg.id_values[i]] =
                          (pg.attempt + 1) * Occurrences(pg.id_values, pg.id_values[i])
             /\ pg.pc = "returned" =>
                    /\ Len(pg.pages) = Len(pg.id_values)
                    /\ \A i \in DOMAIN pg.id_values :
                            pg.pages[i].key = pg.id_values[i]
        ELSE /\ DOMAIN pg.issued = {"resource"}
             /\ pg.issued["resource"] = pg.attempt + 1
             /\ pg.pc = "returned" => Len(pg.pages) = 1

\* C36: async_paginate called with exactly one of id_key and id_values
\* (an empty list is no id_values) raises ValueError and has issued no
\* paginated call, and _scan_context hands a ValueError on as it is
C36_BothRequired ==
    /\ (/\ pg.pc # "idle"
        /\ \/ pg.id_key /\ Len(pg.id_values) = 0
           \/ ~pg.id_key /\ Len(pg.id_values) > 0)
          => /\ pg.pc = "raised"
             /\ pg.err = "ValueError"
             /\ DOMAIN pg.issued = {}
             /\ pg.attempt = 0
             /\ ScanContextError(pg.err) = "ValueError"
    /\ (pg.pc = "raised" /\ pg.err = "ValueError") =>
          pg.id_key = (Len(pg.id_values) = 0)

C36_Witness ==
    /\ pg.pc = "raised"
    /\ pg.err = "ValueError"
    /\ pg.id_key
    /\ pg.id_values = <<>>

\* an async_scan of u left scan itself, not its wait loop, by an exception:
\* a _scan_context of u raised
FetchFailed(u) ==
    \E x \in DOMAIN call :
        /\ x[2] = u
        /\ call[x].pc = "raised"
        /\ call[x].tries < ScanAttempts
        /\ \E c \in ScanContexts(u, CONTEXTS) : TaskOf(u, c).pc = "raised"

\* C37: once the fetch of a unit has failed the unit stays active: it is
\* never complete and never initialized again, every later scan request
\* meets the active-scan error (the caller sleeps and retries), an
\* async_scan on it can only end by TimeOutCrawlerScanError after its 60
\* attempts, and the fetch is not started again
C37_FailedStaysActive ==
    /\ [](\A u \in Units : FetchFailed(u) =>
            /\ state[u] = "active"
            /\ activated[u] = 1
            /\ \A c \in ScanContexts(u, CONTEXTS) : fetched[<<u, c>>] <= 1)
    /\ [][\A u \in Units : FetchFailed(u) =>
            /\ state'[u] = "active"
            /\ activated'[u] = activated[u]
            /\ \A x \in DOMAIN call : x[2] = u =>
                  /\ CallsScan(x) => call'[x].pc = "sleeping"
                  /\ call[x].pc # "returned" => call'[x].pc # "returned"
                  /\ (call[x].pc \in {"ready", "sleeping"} /\ call'[x].pc = "raised")
                        => /\ call'[x].err = "TimeOutCrawlerScanError"
                           /\ call[x].tries = ScanAttempts]_vars

\* the fetch of a unit failed and a later async_scan on it timed out
C37_Witness ==
    \E u \in Units :
        /\ FetchFailed(u)
        /\ \E x \in DOMAIN call :
              /\ x[2] = u
              /\ call[x].pc = "raised"
              /\ call[x].err = "TimeOutCrawlerScanError"
              /\ call[x].tries = ScanAttempts

\* the async_scan x was awaited by the paginate of a custom paginator
Nested(x) == x[1] # Top

\* an async_scan gave up its wait on a unit that stayed active
TimedOut(x) ==
    /\ call[x].pc = "raised"
    /\ call[x].err = "TimeOutCrawlerScanError"
    /\ call[x].tries = ScanAttempts

C39_FailedWriteNoEffect ==
    /\ [][(sv'.last.op = "_add" /\ sv'.last.raised = "FrozenInstanceError") =>
            \A n \in SvNodes : sv'.obj[n].ids = sv.obj[n].ids]_vars
    /\ [](\A n \in SvNodes :
            SvExists(sv.obj, n) =>
                /\ SvGetAll(sv.obj, n).raised = "none"
                /\ \A c \in sv.obj[n].ids : SvGet(sv.obj, n, c) = "found")

\* C40: the section 'scribbles' exists in every state of a Whiteboard; a
\* scribble with a title that is not blank raises nothing and leaves the
\* message under the title, and get_scribble of a scribbled title gives
\* the message back
C40_ScribblesAlways ==
    /\ "scribbles" \in wb.board.sections
    /\ (wb.last.op = "scribble" /\ wb.last.title # "") =>
          /\ wb.last.raised = "none"
          /\ HasTitle(wb.board.data["scribbles"], wb.last.title)
          /\ EntryOf(wb.board.data["scribbles"], wb.last.title) =
                [title |-> wb.last.title, message |-> wb.last.msg,
                 signature |-> Bare]
    /\ (/\ wb.last.op = "get_scribble"
        /\ HasTitle(wb.board.data["scribbles"], wb.last.title)
        /\ IsBare(EntryOf(wb.board.data["scribbles"], wb.last.title))) =>
          /\ wb.last.raised = "none"
          /\ wb.last.returned =
                <<EntryDict(EntryOf(wb.board.data["scribbles"], wb.last.title))>>


====
